---- MODULE Spec2Model ----
(***************************************************************************)
(* Model of the render resource managers of wgpu-blueprint.                *)
(*                                                                         *)
(*   Spec      the per-object-buffer manager, src/renderer/renderer.rs     *)
(*   SpecRoot  the shared-buffer manager,     src/renderer/root.rs         *)
(*                                                                         *)
(* Handles are 0-based as in the source; sequences are 1-based, so the     *)
(* entry of handle h is table[h + 1].  Buffer sizes and offsets are in     *)
(* bytes, buffer contents are sequences of f32 values (4 bytes each).      *)
(* GPU resources are identified by tuples <<kind, slot, gen>>: a resource  *)
(* created by a later call for the same table slot gets the next gen.      *)
(***************************************************************************)
EXTENDS Integers, Sequences, FiniteSets, TLC

\* ---------------------------------------------------------------- bounds
MaxPipelines == 2
MaxObjects == 2
MaxTextures == 1
MaxResizes == 1
MaxIds == 2

\* ------------------------------------------------------ program constants
MinStride == 256
F32Bytes == 4
GenBufLen == 64
Mat4Len == 16
PlaceholderSize == 10

\* ------------------------------------------------------------ input sets
Dims == {<<1, 1>>, <<2, 3>>}
ImageDims == <<4, 4>>
Sources == {"none", "unreadable", "undecodable", "image"}
BadSources == {"unreadable", "undecodable"}

VARIABLES
  pipelines,   \* Renderer.pipelines : Seq of RPipeline
  textures,    \* Renderer.textures  : Seq of wgpu::Texture
  objects,     \* Renderer.objects   : Seq of RObject
  deviceAlive, \* FALSE once device.destroy() ran
  screenAlive, \* FALSE once screen_msaa / screen_zbuffer were destroyed
  panicked,    \* "" or the reason the last call panicked
  op,          \* the last call: name, arguments, return value, and the
               \* resources it called destroy() on
  pass,        \* commands the last call recorded in its render pass
  rpipelines,  \* root.rs Renderer.pipelines : Seq of RPipeline, each with
               \* its objects and its shared bind group 0
  winit,       \* main.rs WinitApp : the frame driver's fields
  calls,       \* calls the last event handler of the frame driver made
  calc         \* last application of a pure function: name, inputs, output

vars == <<pipelines, textures, objects, deviceAlive, screenAlive, panicked,
          op, pass, rpipelines, winit, calls, calc>>

\* ---------------------------------------------------------------- helpers
NoOp ==
  [name |-> "new", pipe |-> -1, tex |-> -1, obj |-> -1, ret |-> -1,
   dims |-> <<0, 0>>, src |-> "none", fmt |-> FALSE, upd |-> "none",
   ids |-> <<>>,
   full |-> FALSE, packed |-> <<>>, released |-> {}]

Zeros(n) == [i \in 1..n |-> 0]

Min(a, b) == IF a < b THEN a ELSE b

\* wgpu::Device::create_texture as called by add_texture / resize_texture
NewTexture(kind, slot, gen, size, fmt, hasData) ==
  [id |-> <<kind, slot, gen>>, w |-> size[1], h |-> size[2],
   format |-> fmt, data |-> hasData]

\* wgpu::Device::create_buffer: a zero-initialised buffer of `size` bytes
NewBuffer(kind, slot, gen, size) ==
  [id |-> <<kind, slot, gen>>, size |-> size,
   data |-> Zeros(size \div F32Bytes)]

\* wgpu::Queue::write_buffer(buffer, offset, data): fails validation when
\* the write overruns the buffer, and leaves the buffer unchanged then
WriteOverruns(buf, offset, data) ==
  offset + F32Bytes * Len(data) > buf.size

WriteBuffer(buf, offset, data) ==
  IF WriteOverruns(buf, offset, data) THEN buf
  ELSE [buf EXCEPT !.data =
          [i \in 1..Len(buf.data) |->
             IF i > offset \div F32Bytes /\ i <= offset \div F32Bytes + Len(data)
             THEN data[i - offset \div F32Bytes] ELSE buf.data[i]]]

\* main.rs: const DEFAULT_SIZE: (u32, u32) = (800, 600);
DEFAULT_SIZE == <<800, 600>>

\* WinitApp::new : no window and no renderer yet, nothing pressed
WinitAppNew ==
  [window_size |-> DEFAULT_SIZE,
   renderer |-> [some |-> FALSE, config |-> <<0, 0>>],
   resize_state |-> 0,
   input_cache |-> [k \in {"KeyA"} |-> "absent"],
   mouse_cache |-> [left |-> "None", right |-> "None"],
   exited |-> FALSE]

\* no pure function applied yet
NoCalc == [fn |-> "none", in |-> <<>>, out |-> <<>>, done |-> FALSE]

\* a function and its inputs, not applied yet
Pending(fn, in) == [fn |-> fn, in |-> in, out |-> <<>>, done |-> FALSE]

\* ------------------------------------------------------------------ Init
InitManagers ==
  /\ pipelines = <<>>
  /\ textures = <<>>
  /\ objects = <<>>
  /\ deviceAlive = TRUE
  /\ screenAlive = TRUE
  /\ panicked = ""
  /\ op = NoOp
  /\ pass = <<>>
  /\ rpipelines = <<>>
  /\ winit = WinitAppNew
  /\ calls = <<>>

Init == InitManagers /\ calc = NoCalc

Running == deviceAlive /\ panicked = ""

\* ---------------------------------------------------------- add_pipeline
\* let id: usize = self.pipelines.len();
NextPipelineId == Len(pipelines)

AddPipeline(has_animations) ==
  /\ Running
  /\ Len(pipelines) < MaxPipelines
  /\ LET id == NextPipelineId IN
       /\ pipelines' = Append(pipelines,
            [pipe |-> <<"pipe", id, 0>>, obj_indices |-> <<>>,
             has_animations |-> has_animations])
       /\ op' = [NoOp EXCEPT !.name = "add_pipeline", !.ret = id]
  /\ pass' = <<>>
  /\ UNCHANGED <<textures, objects, deviceAlive, screenAlive, panicked, rpipelines,
                 winit, calls, calc>>

\* ----------------------------------------------------------- add_texture
\* the size the textures are created with: the requested size unless the
\* file opened and decoded, in which case the image's size
\* mutant: a failed load leaves an empty texture size
TextureSizeFailEmpty(dims, src) ==
  IF src = "image" THEN ImageDims
  ELSE IF src = "none" THEN dims ELSE <<0, 0>>

TextureSize(dims, src) == IF src = "image" THEN ImageDims ELSE dims

RTextureId(id) == [base |-> id, msaa |-> id + 1, zbuffer |-> id + 2]

AddTextureEntries(id, dims, src, use_device_format) ==
  LET size == TextureSize(dims, src)
      fmt == IF use_device_format THEN "screen" ELSE "rgba8unorm" IN
    << NewTexture("texture", id, 0, size, fmt, src = "image"),
       NewTexture("texture", id + 1, 0, size, "screen", FALSE),
       NewTexture("texture", id + 2, 0, size, "depth24plus", FALSE) >>

AddTexture(dims, src, use_device_format) ==
  /\ Running
  /\ Len(textures) < 3 * MaxTextures
  /\ LET id == Len(textures) IN
       /\ textures' = textures \o AddTextureEntries(id, dims, src, use_device_format)
       /\ op' = [NoOp EXCEPT !.name = "add_texture", !.ret = id,
                             !.dims = dims, !.src = src,
                             !.fmt = use_device_format]
  /\ pass' = <<>>
  /\ UNCHANGED <<pipelines, objects, deviceAlive, screenAlive, panicked, rpipelines,
                 winit, calls, calc>>

\* ------------------------------------------------- RObjectUpdate builder
Mat(k) == [i \in 1..Mat4Len |-> 10 + k]
Transforms(n) == [k \in 1..n |-> Mat(k)]

DefaultUpdate ==
  [translate |-> <<0, 0, 0>>, scale |-> <<1, 1, 1>>, visible |-> TRUE,
   rotate |-> [kind |-> "AxisAngle", axis |-> <<0, 0, 1>>, deg |-> 0,
               euler |-> <<0, 0, 0>>],
   camera |-> <<>>, gen_buf |-> Zeros(GenBufLen), anim_transforms |-> <<>>]

with_position(u, pos) == [u EXCEPT !.translate = pos]

with_color(u, c) ==
  [u EXCEPT !.gen_buf = [i \in 1..GenBufLen |->
     IF i <= 4 THEN c[i] ELSE u.gen_buf[i]]]

with_round_border(u, rect_size, radius) ==
  [u EXCEPT !.gen_buf = [i \in 1..GenBufLen |->
     CASE i = 5 -> rect_size[1]
       [] i = 6 -> rect_size[2]
       [] i = 7 -> radius
       [] OTHER -> u.gen_buf[i]]]

with_anim(u, transforms) == [u EXCEPT !.anim_transforms = transforms]

with_rotation(u, axis, angle_deg) ==
  [u EXCEPT !.rotate = [kind |-> "AxisAngle", axis |-> axis, deg |-> angle_deg,
                        euler |-> <<0, 0, 0>>]]

with_euler_rotation(u, roll, pitch, yaw) ==
  [u EXCEPT !.rotate = [kind |-> "Euler", axis |-> <<0, 0, 0>>, deg |-> 0,
                        euler |-> <<roll, pitch, yaw>>]]

with_scale(u, scale) == [u EXCEPT !.scale = scale]

\* self.camera = Some(camera)
with_camera(u, camera) == [u EXCEPT !.camera = <<camera>>]

Hidden(u) == [u EXCEPT !.visible = FALSE]

UpdRed == with_color(with_position(DefaultUpdate, <<10, 20, 0>>), <<1, 0, 0, 1>>)
UpdRound == with_round_border(with_color(DefaultUpdate, <<2, 3, 4, 1>>), <<6, 5>>, 7)

\* the updates of Spec, and the joint-carrying updates of SpecJoints
Updates == { DefaultUpdate, Hidden(UpdRed), with_anim(UpdRound, Transforms(1)) }

JointUpdates ==
  { UpdRed, Hidden(UpdRound),
    with_anim(UpdRound, Transforms(1)),
    with_anim(UpdRed, Transforms(3)),
    with_anim(UpdRound, Transforms(6)) }

JointCaps == {0, 2}
JointCapsWide == {0, 2, 5}

\* ------------------------------------------------------------ create_mvp
\* The 48 floats written to the MVP buffer: the model matrix (column-major,
\* translate x scale, every update here has a zero rotation) followed by the
\* view and projection matrices, which are kept symbolic: they are a function
\* of the camera only.
CreateMvp(update) ==
  LET t == update.translate
      s == update.scale
      model == << s[1], 0, 0, 0,  0, s[2], 0, 0,  0, 0, s[3], 0,
                  t[1], t[2], t[3], 1 >>
  IN model \o [i \in 1..Mat4Len |-> <<"view", update.camera, i>>]
           \o [i \in 1..Mat4Len |-> <<"proj", update.camera, i>>]

\* ------------------------------------------------------- add_bind_group0
NoTexture == [base |-> -1, msaa |-> -1, zbuffer |-> -1]

TextureView(txs, tx_id) ==
  IF tx_id = NoTexture THEN <<"placeholder", PlaceholderSize, PlaceholderSize>>
  ELSE txs[tx_id.base + 1].id

AddBindGroup0(txs, slot, gen, pipeline, texture1, texture2, has_animations, max_joints) ==
  LET mvp_buffer == NewBuffer("mvp", slot, gen, MinStride)
      gen_buffer == NewBuffer("gen", slot, gen, MinStride)
      joints_buffer == NewBuffer("joints", slot, gen, max_joints * 4 * 4 * 4)
      entries == <<mvp_buffer.id, gen_buffer.id, "sampler",
                   TextureView(txs, texture1), TextureView(txs, texture2)>>
                 \o (IF has_animations THEN <<joints_buffer.id>> ELSE <<>>)
  IN [bind_group |-> [id |-> <<"bind_group", slot, gen>>,
                      layout |-> pipelines[pipeline + 1].pipe,
                      entries |-> entries],
      buffers |-> <<mvp_buffer, gen_buffer>>
                  \o (IF has_animations THEN <<joints_buffer>> ELSE <<>>)]

\* --------------------------------------------------------- update_object
\* the loop that merges the joint matrices into one buffer
RECURSIVE PackJoints(_, _, _, _)
PackJoints(i, max_joints, transforms, anim_buffer) ==
  IF i >= max_joints THEN anim_buffer
  ELSE IF i >= Len(transforms) THEN anim_buffer
  ELSE PackJoints(i + 1, max_joints, transforms, anim_buffer \o transforms[i + 1])

\* the buffer of buffers0 that receives the packed joint matrices
JointsTarget == 2

UpdateObjectImpl(objs, h, update) ==
  LET obj == objs[h + 1]
      packs == obj.max_joints > 0 /\ Len(update.anim_transforms) > 0
      anim_buffer == IF packs
                     THEN PackJoints(0, obj.max_joints, update.anim_transforms, <<>>)
                     ELSE <<>>
      b1 == [obj.buffers0 EXCEPT ![1] = WriteBuffer(@, 0, CreateMvp(update))]
      b2 == [b1 EXCEPT ![2] = WriteBuffer(@, 0, update.gen_buf)]
      b3 == IF packs
            THEN [b2 EXCEPT ![JointsTarget] = WriteBuffer(@, 0, anim_buffer)]
            ELSE b2
      err == packs /\ WriteOverruns(b2[JointsTarget], 0, anim_buffer)
  IN [objects |-> [objs EXCEPT ![h + 1] =
                     [obj EXCEPT !.visible = update.visible, !.buffers0 = b3]],
      packed |-> anim_buffer,
      err |-> IF err THEN "write_buffer overruns the destination buffer" ELSE ""]

UpdateObject(h, update) ==
  /\ Running
  /\ h \in 0..(Len(objects) - 1)
  /\ LET r == UpdateObjectImpl(objects, h, update) IN
       /\ objects' = r.objects
       /\ panicked' = r.err
       /\ op' = [NoOp EXCEPT !.name = "update_object", !.obj = h,
                             !.upd = update, !.packed = r.packed]
  /\ pass' = <<>>
  /\ UNCHANGED <<pipelines, textures, deviceAlive, screenAlive, rpipelines,
                 winit, calls, calc>>

\* ------------------------------------------------------------ add_object
\* mutant: the handle is the object's index within its pipeline
NextObjectIdPerPipeline(pipeline_id) ==
  Len(pipelines[pipeline_id + 1].obj_indices)

\* let id = self.objects.len();
NextObjectId(pipeline_id) == Len(objects)

\* mutant: the new object is inserted at the front of the table
PushObjectFront(objs, obj) == <<obj>> \o objs

\* self.objects.push(obj);
PushObject(objs, obj) == Append(objs, obj)

AddObject(pipeline_id, has_indices, texture1, max_joints) ==
  /\ Running
  /\ Len(objects) < MaxObjects
  /\ pipeline_id \in 0..(Len(pipelines) - 1)
  /\ LET pipe == pipelines[pipeline_id + 1]
         id == NextObjectId(pipeline_id)
         bg == AddBindGroup0(textures, id, 0, pipeline_id, texture1, NoTexture,
                             pipe.has_animations, max_joints)
         obj == [visible |-> TRUE,
                 pipe_id |-> pipeline_id,
                 v_buffer |-> <<"v_buffer", id, 0>>,
                 index_buffer |-> IF has_indices
                                  THEN <<"index_buffer", id, 0>>
                                  ELSE <<>>,
                 bind_group0 |-> bg.bind_group,
                 buffers0 |-> bg.buffers,
                 texture1 |-> texture1,
                 texture2 |-> NoTexture,
                 max_joints |-> max_joints]
         r == UpdateObjectImpl(PushObject(objects, obj), id, DefaultUpdate)
     IN
       /\ objects' = r.objects
       /\ pipelines' = [pipelines EXCEPT ![pipeline_id + 1].obj_indices =
                          Append(@, id)]
       /\ panicked' = r.err
       /\ op' = [NoOp EXCEPT !.name = "add_object", !.pipe = pipeline_id,
                             !.ret = id]
  /\ pass' = <<>>
  /\ UNCHANGED <<textures, deviceAlive, screenAlive, rpipelines,
                 winit, calls, calc>>

\* the texture handles add_texture has returned and that are still in the table
TextureHandles == {RTextureId(3 * k) : k \in 0..((Len(textures) \div 3) - 1)}

\* -------------------------------------------------------- resize_texture
Gen(id) == id[3]

\* mutant: every object is rebound
RebindAll(objs, obj_id, bg) ==
  [i \in 1..Len(objs) |->
     [objs[i] EXCEPT !.bind_group0 = bg.bind_group, !.buffers0 = bg.buffers]]

\* self.objects[obj_id.0].bind_group0 = bind_group0;
\* self.objects[obj_id.0].buffers0 = buffers0;
Rebind(objs, obj_id, bg) ==
  [objs EXCEPT ![obj_id + 1] =
     [@ EXCEPT !.bind_group0 = bg.bind_group, !.buffers0 = bg.buffers]]

ResizeTexture(texture_id, obj_id, dims) ==
  /\ Running
  /\ texture_id \in TextureHandles
  /\ obj_id \in 0..(Len(objects) - 1)
  /\ Gen(textures[texture_id.base + 1].id) < MaxResizes
  /\ LET old_texture == textures[texture_id.base + 1]
         old_msaa == textures[texture_id.msaa + 1]
         old_zbuffer == textures[texture_id.zbuffer + 1]
         new_texture == NewTexture("texture", texture_id.base,
                          Gen(old_texture.id) + 1, dims, old_texture.format, FALSE)
         new_msaa == NewTexture("texture", texture_id.msaa,
                          Gen(old_msaa.id) + 1, dims, "screen", FALSE)
         new_zbuffer == NewTexture("texture", texture_id.zbuffer,
                          Gen(old_zbuffer.id) + 1, dims, "depth24plus", FALSE)
         txs == [textures EXCEPT ![texture_id.base + 1] = new_texture,
                                 ![texture_id.msaa + 1] = new_msaa,
                                 ![texture_id.zbuffer + 1] = new_zbuffer]
         obj == objects[obj_id + 1]
         \* let pipe = &self.pipelines[obj_id.0];
         pipe_index == obj_id
         in_range == pipe_index < Len(pipelines)
     IN
       /\ textures' = txs
       /\ op' = [NoOp EXCEPT !.name = "resize_texture", !.tex = texture_id.base,
                             !.obj = obj_id, !.dims = dims,
                             !.released = {old_texture.id, old_msaa.id, old_zbuffer.id}]
       /\ IF in_range
          THEN LET bg == AddBindGroup0(txs, obj_id, Gen(obj.bind_group0.id) + 1,
                           obj.pipe_id, obj.texture1, obj.texture2,
                           pipelines[pipe_index + 1].has_animations, obj.max_joints)
               IN /\ objects' = Rebind(objects, obj_id, bg)
                  /\ panicked' = ""
          ELSE /\ objects' = objects
               /\ panicked' = "index out of bounds: pipelines"
  /\ pass' = <<>>
  /\ UNCHANGED <<pipelines, deviceAlive, screenAlive, rpipelines,
                 winit, calls, calc>>

\* ----------------------------------------------------------- render_impl
DrawCmds(p_id, obj_id) ==
  LET pipeline == pipelines[p_id + 1]
      obj == objects[obj_id + 1]
  IN << [cmd |-> "set_pipeline", arg |-> pipeline.pipe],
        [cmd |-> "set_vertex_buffer", arg |-> obj.v_buffer],
        [cmd |-> "set_bind_group", arg |-> obj.bind_group0.id] >>
     \o (IF obj.index_buffer # <<>>
         THEN << [cmd |-> "set_index_buffer", arg |-> obj.index_buffer],
                 [cmd |-> "draw_indexed", arg |-> <<"object", obj_id>>] >>
         ELSE << [cmd |-> "draw", arg |-> <<"object", obj_id>>] >>)

\* mutant: hidden objects are drawn too
SkippedNever(obj) == FALSE

\* if !obj.visible { continue; }
Skipped(obj) == ~obj.visible

\* for i in 0..pipeline.obj_indices.len()
RECURSIVE RenderObjects(_, _, _)
RenderObjects(p_id, i, cmds) ==
  LET obj_indices == pipelines[p_id + 1].obj_indices IN
    IF i >= Len(obj_indices) THEN cmds
    ELSE LET obj_id == obj_indices[i + 1] IN
           IF Skipped(objects[obj_id + 1])
           THEN RenderObjects(p_id, i + 1, cmds)
           ELSE RenderObjects(p_id, i + 1, cmds \o DrawCmds(p_id, obj_id))

\* for p_id in pipeline_ids
RECURSIVE RenderImpl(_, _, _)
RenderImpl(pipeline_ids, k, cmds) ==
  IF k > Len(pipeline_ids) THEN cmds
  ELSE RenderImpl(pipeline_ids, k + 1, RenderObjects(pipeline_ids[k], 0, cmds))

PipelineLists ==
  UNION {[1..n -> 0..(Len(pipelines) - 1)] : n \in 0..MaxIds}

RenderOnTexture(pipeline_ids, target_id) ==
  /\ Running
  /\ target_id \in TextureHandles
  /\ pipeline_ids \in PipelineLists
  /\ pass' = RenderImpl(pipeline_ids, 1, <<>>)
  /\ op' = [NoOp EXCEPT !.name = "render_on_texture", !.tex = target_id.base,
                        !.ids = pipeline_ids]
  /\ UNCHANGED <<pipelines, textures, objects, deviceAlive, screenAlive, panicked,
                 rpipelines,
                 winit, calls, calc>>

\* --------------------------------------------------------------- destroy
\* mutant: the uniform buffers of an object are not destroyed
ObjectResourcesNoUniforms(obj) ==
  {obj.v_buffer} \cup (IF obj.index_buffer # <<>> THEN {obj.index_buffer} ELSE {})

ObjectResources(obj) ==
  {obj.v_buffer} \cup (IF obj.index_buffer # <<>> THEN {obj.index_buffer} ELSE {})
  \cup {obj.buffers0[i].id : i \in 1..Len(obj.buffers0)}

Destroy(destroy_renderer) ==
  /\ Running
  /\ textures' = <<>>
  /\ objects' = <<>>
  /\ pipelines' = <<>>
  /\ op' = [NoOp EXCEPT !.name = "destroy", !.full = destroy_renderer,
       !.released =
          {textures[i].id : i \in 1..Len(textures)}
          \cup UNION {ObjectResources(objects[i]) : i \in 1..Len(objects)}
          \cup (IF destroy_renderer
                THEN {<<"screen_msaa">>, <<"screen_zbuffer">>, <<"device">>}
                ELSE {})]
  /\ screenAlive' = (screenAlive /\ ~destroy_renderer)
  /\ deviceAlive' = (deviceAlive /\ ~destroy_renderer)
  /\ pass' = <<>>
  /\ UNCHANGED <<panicked, rpipelines,
                 winit, calls, calc>>

\* --------------------------------------------------------- specifications
\* add_texture arguments: <<size, source, use_device_format>>
TextureSetups ==
  { <<<<1, 1>>, "none", FALSE>>, <<<<2, 3>>, "unreadable", TRUE>>,
    <<<<1, 1>>, "undecodable", FALSE>>, <<<<2, 3>>, "image", FALSE>> }

\* add_object arguments: <<pipeline_id, has indices, texture1_id, max_joints>>;
\* an object with joints is indexed, and textured when a texture exists
SetupTexture(j) ==
  IF j > 0 /\ textures # <<>> THEN RTextureId(0) ELSE NoTexture

ObjectSetups(caps) ==
  {<<p, j > 0, SetupTexture(j), j>> : p \in 0..(Len(pipelines) - 1), j \in caps}

\* Spec: building and tearing down the tables
Next ==
  \/ \E a \in BOOLEAN : AddPipeline(a)
  \/ \E s \in TextureSetups : AddTexture(s[1], s[2], s[3])
  \/ \E s \in ObjectSetups(JointCaps) : AddObject(s[1], s[2], s[3], s[4])
  \/ \E h \in 0..(Len(objects) - 1), u \in Updates : UpdateObject(h, u)
  \/ \E f \in BOOLEAN : Destroy(f)

Spec == Init /\ [][Next]_vars

\* SpecRender: render passes over visible and hidden objects
NextRender ==
  \/ AddPipeline(FALSE)
  \/ AddTexture(<<1, 1>>, "none", FALSE)
  \/ \E s \in ObjectSetups(JointCaps) : AddObject(s[1], s[2], s[3], s[4])
  \/ \E h \in 0..(Len(objects) - 1), u \in {DefaultUpdate, Hidden(UpdRed)} :
       UpdateObject(h, u)
  \/ \E t \in TextureHandles, ids \in PipelineLists : RenderOnTexture(ids, t)

SpecRender == Init /\ [][NextRender]_vars

\* SpecResize: resizing a texture and rendering to it
NextResize ==
  \/ \E a \in BOOLEAN : AddPipeline(a)
  \/ \E s \in {<<<<1, 1>>, "none", FALSE>>, <<<<2, 3>>, "image", TRUE>>} :
       AddTexture(s[1], s[2], s[3])
  \/ \E s \in ObjectSetups(JointCaps) : AddObject(s[1], s[2], s[3], s[4])
  \/ \E h \in 0..(Len(objects) - 1) : UpdateObject(h, Hidden(UpdRed))
  \/ \E t \in TextureHandles, h \in 0..(Len(objects) - 1), d \in Dims :
       ResizeTexture(t, h, d)
  \/ \E t \in TextureHandles, p \in 0..(Len(pipelines) - 1) :
       RenderOnTexture(<<p>>, t)

SpecResize == Init /\ [][NextResize]_vars

\* SpecJoints: updates that carry joint transforms
NextJoints ==
  \/ \E a \in BOOLEAN : AddPipeline(a)
  \/ \E s \in ObjectSetups(JointCapsWide) : AddObject(s[1], s[2], s[3], s[4])
  \/ \E h \in 0..(Len(objects) - 1), u \in JointUpdates : UpdateObject(h, u)

SpecJoints == Init /\ [][NextJoints]_vars
\* ================================================= renderer/root.rs manager
\* The shared-buffer manager keeps the objects inside their pipeline and one
\* bind group 0 per pipeline, whose MVP and general buffers hold one slot of
\* MinStride bytes per object.
VERTEX_TYPE_STATIC == 3
VERTEX_TYPE_ANIM == 4

RootSetups ==
  { [max_obj_count |-> 1, vertex_type |-> VERTEX_TYPE_STATIC, max_joints_count |-> 0],
    [max_obj_count |-> 2, vertex_type |-> VERTEX_TYPE_ANIM, max_joints_count |-> 2] }

RootDefaultUpdate ==
  [translate |-> <<0, 0, 0>>, scale |-> <<1, 1, 1>>, visible |-> TRUE,
   camera |-> "none", color |-> <<1, 1, 1, 1>>, rect_size |-> <<>>,
   rect_radius |-> 0, anim_transforms |-> <<>>]

RootUpdates ==
  { [RootDefaultUpdate EXCEPT !.visible = FALSE, !.color = <<1, 0, 0, 1>>],
    [RootDefaultUpdate EXCEPT !.color = <<2, 3, 4, 1>>, !.rect_size = <<6, 5>>,
                              !.rect_radius = 7,
                              !.anim_transforms = Transforms(1)] }

\* create_buf: the colour, then the rectangle size and radius if there is one
create_buf(update) ==
  update.color \o (IF update.rect_size # <<>>
                   THEN update.rect_size \o <<update.rect_radius>>
                   ELSE <<>>)

RootAddBindGroup0(slot, gen, max_obj_count, vertex_type, max_joints) ==
  LET mvp_buffer == NewBuffer("mvp", slot, gen, MinStride * max_obj_count)
      gen_buffer == NewBuffer("gen", slot, gen, MinStride * max_obj_count)
      joints_buffer == NewBuffer("joints", slot, gen, max_joints * 4 * 4 * 4)
  IN [base |-> <<"bind_group", slot, gen>>,
      entries |-> <<mvp_buffer, gen_buffer>>
                  \o (IF vertex_type = VERTEX_TYPE_ANIM
                      THEN <<joints_buffer>> ELSE <<>>)]

RootAddPipeline(setup) ==
  /\ Running
  /\ Len(rpipelines) < MaxPipelines
  /\ LET id == Len(rpipelines) IN
       /\ rpipelines' = Append(rpipelines,
            [pipe |-> <<"pipe", id, 0>>,
             objects |-> <<>>,
             max_obj_count |-> setup.max_obj_count,
             vertex_type |-> setup.vertex_type,
             max_joints_count |-> setup.max_joints_count,
             bind_group0 |-> RootAddBindGroup0(id, 0, setup.max_obj_count,
                               setup.vertex_type, setup.max_joints_count)])
       /\ op' = [NoOp EXCEPT !.name = "add_pipeline", !.ret = id]
  /\ pass' = <<>>
  /\ UNCHANGED <<pipelines, textures, objects, deviceAlive, screenAlive,
                 panicked,
                 winit, calls, calc>>

\* update_object: the writes go to the object's slot of the shared buffers,
\* the packed joint matrices to offset 0; the first write that overruns its
\* buffer fails the call
RootUpdateObjectImpl(pipe, idx, update) ==
  LET obj == pipe.objects[idx + 1]
      stride == MinStride
      offset == stride * obj.pipe_index
      entries == pipe.bind_group0.entries
      mvp == CreateMvp(update)
      buf == create_buf(update)
      packs == pipe.max_joints_count > 0 /\ Len(update.anim_transforms) > 0
      anim_buffer == IF packs
                     THEN PackJoints(0, pipe.max_joints_count,
                                     update.anim_transforms, <<>>)
                     ELSE <<>>
      bad1 == WriteOverruns(entries[1], offset, mvp)
      e1 == [entries EXCEPT ![1] = WriteBuffer(@, offset, mvp)]
      bad2 == ~bad1 /\ WriteOverruns(e1[2], offset, buf)
      e2 == IF bad1 THEN e1 ELSE [e1 EXCEPT ![2] = WriteBuffer(@, offset, buf)]
      bad3 == ~bad1 /\ ~bad2 /\ packs /\ WriteOverruns(e2[2], 0, anim_buffer)
      e3 == IF bad1 \/ bad2 \/ ~packs THEN e2
            ELSE [e2 EXCEPT ![2] = WriteBuffer(@, 0, anim_buffer)]
  IN [pipe |-> [pipe EXCEPT !.objects[idx + 1].visible = update.visible,
                            !.bind_group0.entries = e3],
      err |-> IF bad1 \/ bad2 \/ bad3
              THEN "write_buffer overruns the destination buffer" ELSE ""]

RootUpdateObject(p, idx, update) ==
  /\ Running
  /\ p \in 0..(Len(rpipelines) - 1)
  /\ idx \in 0..(Len(rpipelines[p + 1].objects) - 1)
  /\ LET r == RootUpdateObjectImpl(rpipelines[p + 1], idx, update) IN
       /\ rpipelines' = [rpipelines EXCEPT ![p + 1] = r.pipe]
       /\ panicked' = r.err
       /\ op' = [NoOp EXCEPT !.name = "update_object", !.pipe = p, !.obj = idx,
                             !.upd = update]
  /\ pass' = <<>>
  /\ UNCHANGED <<pipelines, textures, objects, deviceAlive, screenAlive,
                 winit, calls, calc>>

\* add_object: the object takes the next index of its pipeline as its slot
RootAddObject(pipeline_id, has_indices) ==
  /\ Running
  /\ pipeline_id \in 0..(Len(rpipelines) - 1)
  /\ LET pipe == rpipelines[pipeline_id + 1]
         id == Len(pipe.objects)
         obj == [visible |-> TRUE,
                 v_buffer |-> <<"v_buffer", pipeline_id, id>>,
                 pipe_index |-> id,
                 index_buffer |-> IF has_indices
                                  THEN <<"index_buffer", pipeline_id, id>>
                                  ELSE <<>>]
         pushed == [pipe EXCEPT !.objects = Append(@, obj)]
         r == RootUpdateObjectImpl(pushed, id, RootDefaultUpdate)
     IN
       /\ rpipelines' = [rpipelines EXCEPT ![pipeline_id + 1] = r.pipe]
       /\ panicked' = r.err
       /\ op' = [NoOp EXCEPT !.name = "add_object", !.pipe = pipeline_id,
                             !.ret = id]
  /\ pass' = <<>>
  /\ UNCHANGED <<pipelines, textures, objects, deviceAlive, screenAlive,
                 winit, calls, calc>>

\* SpecRoot: the shared-buffer manager
NextRoot ==
  \/ \E s \in RootSetups : RootAddPipeline(s)
  \/ \E p \in 0..(Len(rpipelines) - 1), i \in BOOLEAN : RootAddObject(p, i)
  \/ \E p \in 0..(Len(rpipelines) - 1), u \in RootUpdates :
       \E idx \in 0..(Len(rpipelines[p + 1].objects) - 1) :
         RootUpdateObject(p, idx, u)

SpecRoot == Init /\ [][NextRoot]_vars

\* ======================================================== f32 arithmetic
\* A float is modelled as a fraction <<n, d>> in lowest terms with d >= 0,
\* exact below 2^24 and rounded to the f32 spacing from there on; d = 0 stands
\* for the non-finite values: <<1, 0>> is +inf, <<-1, 0>> is -inf and <<0, 0>>
\* is NaN.

\* an operator applied to the values of its arguments: each argument
\* expression is evaluated once, however often the operator uses it
Val1(Op(_), a) == CHOOSE r \in {Op(x) : x \in {a}} : TRUE
Val2(Op(_, _), a, b) == CHOOSE r \in {Op(x, y) : x \in {a}, y \in {b}} : TRUE

RECURSIVE GCD(_, _)
GCD(a, b) == IF b = 0 THEN a ELSE Val2(LAMBDA x, y : GCD(x, y), b, a % b)

Abs(x) == IF x < 0 THEN -x ELSE x

Sign(x) == IF x < 0 THEN -1 ELSE IF x > 0 THEN 1 ELSE 0

\* spacing of the f32 values around a magnitude a: an f32 carries 24 significant
\* bits, so every integer below 2^24 is a value and the spacing doubles with
\* each further power of two
RECURSIVE Ulp(_)
Ulp(a) == IF a < 16777216 THEN 1 ELSE 2 * Val1(LAMBDA x : Ulp(x), a \div 2)

\* round-to-nearest, ties to the even significand, of the positive fraction
\* n / d; fractions below 2^24 are kept exact
F32Round(n, d) ==
  Val1(LAMBDA u :
         IF u = 1 THEN <<n, d>>
         ELSE Val1(LAMBDA k :
                     LET rem == n - k * d * u
                         up == 2 * rem > d * u \/ (2 * rem = d * u /\ k % 2 = 1)
                     IN <<(IF up THEN k + 1 ELSE k) * u, 1>>,
                   n \div (d * u)),
       Ulp(n \div d))

\* the f32 nearest to n / d
Q(n, d) ==
  Val2(LAMBDA x, y :
         IF y = 0 THEN <<Sign(x), 0>>
         ELSE Val1(LAMBDA g :
                     Val1(LAMBDA r : <<Sign(y) * Sign(x) * r[1], r[2]>>,
                          F32Round(Abs(x) \div g, Abs(y) \div g)),
                   GCD(Abs(x), Abs(y))),
       n, d)

F(n) == <<n, 1>>

\* sums and differences are formed over the least common denominator
QAdd(a, b) ==
  Val2(LAMBDA x, y :
         IF x[2] = 0 \/ y[2] = 0 THEN Q(x[1] * y[2] + y[1] * x[2], 0)
         ELSE Val1(LAMBDA g : Q(x[1] * (y[2] \div g) + y[1] * (x[2] \div g),
                                (x[2] \div g) * y[2]),
                   GCD(x[2], y[2])),
       a, b)
QSub(a, b) ==
  Val2(LAMBDA x, y :
         IF x[2] = 0 \/ y[2] = 0 THEN Q(x[1] * y[2] - y[1] * x[2], 0)
         ELSE Val1(LAMBDA g : Q(x[1] * (y[2] \div g) - y[1] * (x[2] \div g),
                                (x[2] \div g) * y[2]),
                   GCD(x[2], y[2])),
       a, b)
QMul(a, b) == Val2(LAMBDA x, y : Q(x[1] * y[1], x[2] * y[2]), a, b)
QDiv(a, b) == Val2(LAMBDA x, y : Q(x[1] * y[2], x[2] * y[1]), a, b)
QNeg(a) == Val1(LAMBDA x : <<-x[1], x[2]>>, a)
QIsNaN(a) == a = <<0, 0>>
QFinite(a) == a[2] > 0
\* comparisons; every comparison with NaN is false
QLt(a, b) ==
  Val2(LAMBDA x, y :
         /\ ~QIsNaN(x) /\ ~QIsNaN(y)
         /\ IF x[2] = 0 /\ y[2] = 0 THEN x[1] < y[1]
            ELSE IF x[2] = 0 THEN x[1] < 0
            ELSE IF y[2] = 0 THEN y[1] > 0
            ELSE LET fa == x[1] \div x[2]
                     fb == y[1] \div y[2]
                 IN IF fa # fb THEN fa < fb
                    ELSE (x[1] - fa * x[2]) * y[2] < (y[1] - fb * y[2]) * x[2],
       a, b)
QLe(a, b) ==
  Val2(LAMBDA x, y : ~QIsNaN(x) /\ ~QIsNaN(y) /\ (x = y \/ QLt(x, y)), a, b)
QGt(a, b) == QLt(b, a)
QGe(a, b) == QLe(b, a)
\* f32::min / f32::max : the other operand when one is NaN
QMin(a, b) ==
  Val2(LAMBDA x, y : IF QIsNaN(x) THEN y ELSE IF QIsNaN(y) THEN x
                     ELSE IF QLt(y, x) THEN y ELSE x, a, b)
QMax(a, b) ==
  Val2(LAMBDA x, y : IF QIsNaN(x) THEN y ELSE IF QIsNaN(y) THEN x
                     ELSE IF QLt(x, y) THEN y ELSE x, a, b)
QAbs(a) == Val1(LAMBDA x : <<Abs(x[1]), x[2]>>, a)

\* largest r with r * r <= n, by bisection on lo..hi
RECURSIVE ISqrtIn(_, _, _)
ISqrtIn(n, lo, hi) ==
  IF lo >= hi THEN lo
  ELSE Val1(LAMBDA mid : IF mid * mid <= n THEN ISqrtIn(n, mid, hi)
                         ELSE ISqrtIn(n, lo, mid - 1),
            (lo + hi + 1) \div 2)

\* the bisection started on a range whose squares fit the integers
ISqrt(n) == Val1(LAMBDA x : ISqrtIn(x, 0, IF x < 46340 THEN x ELSE 46340), n)

\* precision of a computed square root: exact for the squares of fractions
\* over a divisor of SqrtScale, rounded down to 1 / SqrtScale otherwise
SqrtScale == 100

\* f32::sqrt : NaN for a negative operand
QSqrt(a) ==
  Val1(LAMBDA x :
         IF QIsNaN(x) \/ x[1] < 0 THEN <<0, 0>>
         ELSE IF x[2] = 0 THEN x
         ELSE Val2(LAMBDA r, rd :
                     IF r * r = x[1] /\ rd * rd = x[2] THEN Q(r, rd)
                     ELSE LET s2 == SqrtScale * SqrtScale
                              m == (x[1] \div x[2]) * s2
                                     + ((x[1] % x[2]) * s2) \div x[2]
                          IN Q(ISqrt(m), SqrtScale),
                   ISqrt(x[1]), ISqrt(x[2])),
       a)

\* cos and sin of an angle in degrees, for the multiples of 30 and of 45
\* cos of 0, 30, 45, 60 and 90 degrees, the roots of 3 and of 2 taken to
\* 1 / SqrtScale as by QSqrt
CosFirstQuadrant(d) ==
  IF d = 0 THEN <<1, 1>>
  ELSE IF d = 30 THEN <<173, 200>>
  ELSE IF d = 45 THEN <<141, 200>>
  ELSE IF d = 60 THEN <<1, 2>>
  ELSE <<0, 1>>
Cos(deg) ==
  LET r == deg % 360
      q == IF r <= 90 THEN r ELSE IF r <= 180 THEN 180 - r
           ELSE IF r <= 270 THEN r - 180 ELSE 360 - r
      v == CosFirstQuadrant(q)
  IN IF r > 90 /\ r < 270 THEN <<-v[1], v[2]>> ELSE v
Sin(deg) == Cos(deg + 270)

\* --------------------------------------------------------- math/lin_alg.rs
V3(x, y, z) == <<F(x), F(y), F(z)>>
Vec3Sub(a, b) ==
  Val2(LAMBDA x, y : <<QSub(x[1], y[1]), QSub(x[2], y[2]), QSub(x[3], y[3])>>,
       a, b)
Vec3Cross(a, b) ==
  Val2(LAMBDA x, y :
         << QSub(QMul(x[2], y[3]), QMul(x[3], y[2])),
            QSub(QMul(x[3], y[1]), QMul(x[1], y[3])),
            QSub(QMul(x[1], y[2]), QMul(x[2], y[1])) >>,
       a, b)
Vec3Magnitude(a) ==
  Val1(LAMBDA x :
         QSqrt(QAdd(QAdd(QMul(x[1], x[1]), QMul(x[2], x[2])), QMul(x[3], x[3]))),
       a)
\* if n < 0.00001 { return Vec3::new(0.0, 0.0, 0.0) }
Vec3Normalize(a) ==
  Val2(LAMBDA x, n :
         IF QLt(n, Q(1, 100000)) THEN V3(0, 0, 0)
         ELSE <<QDiv(x[1], n), QDiv(x[2], n), QDiv(x[3], n)>>,
       a, Vec3Magnitude(a))

Mat4Identity ==
  << F(1), F(0), F(0), F(0),  F(0), F(1), F(0), F(0),
     F(0), F(0), F(1), F(0),  F(0), F(0), F(0), F(1) >>

Mat4Translate(x, y, z) ==
  << F(1), F(0), F(0), F(0),  F(0), F(1), F(0), F(0),
     F(0), F(0), F(1), F(0),  x, y, z, F(1) >>

Mat4Scale(x, y, z) ==
  << x, F(0), F(0), F(0),  F(0), y, F(0), F(0),
     F(0), F(0), z, F(0),  F(0), F(0), F(0), F(1) >>

\* the matrix of rotate for the normalized axis n
RotationAbout(n0, deg) ==
  Val1(LAMBDA n :
         LET xx == QMul(n[1], n[1])
             yy == QMul(n[2], n[2])
             zz == QMul(n[3], n[3])
             c == Cos(deg)
             s == Sin(deg)
             o == QSub(F(1), c)
             xy == QMul(QMul(n[1], n[2]), o)
             xz == QMul(QMul(n[1], n[3]), o)
             yz == QMul(QMul(n[2], n[3]), o)
         IN << QAdd(xx, QMul(QSub(F(1), xx), c)),
               QAdd(xy, QMul(n[3], s)),
               QSub(xz, QMul(n[2], s)),
               F(0),
               QSub(xy, QMul(n[3], s)),
               QAdd(yy, QMul(QSub(F(1), yy), c)),
               QAdd(yz, QMul(n[1], s)),
               F(0),
               QAdd(xz, QMul(n[2], s)),
               QSub(yz, QMul(n[1], s)),
               QAdd(zz, QMul(QSub(F(1), zz), c)),
               F(0),
               F(0), F(0), F(0), F(1) >>,
       n0)

\* math/lin_alg.rs : let n = axis.normalize();
Mat4Rotate(axis, deg) == RotationAbout(Vec3Normalize(axis), deg)

\* renderer/lin_alg.rs : the axis is divided by its length, whatever it is
RendererMat4Rotate(axis, deg) ==
  Val2(LAMBDA x, n : RotationAbout(<<QDiv(x[1], n), QDiv(x[2], n), QDiv(x[3], n)>>, deg),
       axis, Vec3Magnitude(axis))

Mat4RotateEuler(roll, pitch, yaw) ==
  LET cosa == Cos(roll)  sina == Sin(roll)
      cosb == Cos(pitch) sinb == Sin(pitch)
      cosc == Cos(yaw)   sinc == Sin(yaw)
  IN << QMul(cosb, cosc),
        QMul(cosb, sinc),
        QNeg(sinb),
        F(0),
        QSub(QMul(QMul(sina, sinb), cosc), QMul(cosa, sinc)),
        QAdd(QMul(QMul(sina, sinb), sinc), QMul(cosa, cosc)),
        QMul(sina, cosb),
        F(0),
        QAdd(QMul(QMul(cosa, sinb), cosc), QMul(sina, sinc)),
        QSub(QMul(QMul(cosa, sinb), sinc), QMul(sina, cosc)),
        QMul(cosa, cosb),
        F(0),
        F(0), F(0), F(0), F(1) >>

\* dst[4 * col + row] = sum over k of a[4 * k + row] * b[4 * col + k]
Mat4Multiply(a, b) ==
  Val2(LAMBDA x, y :
         [i \in 1..16 |->
            LET row == (i - 1) % 4
                col == (i - 1) \div 4
                t(k) == QMul(x[4 * k + row + 1], y[4 * col + k + 1])
            IN QAdd(QAdd(QAdd(t(0), t(1)), t(2)), t(3))],
       a, b)

Mat4Ortho(left, right, top, bottom, near, far) ==
  LET a == QDiv(F(2), QSub(right, left))
      b == QDiv(F(2), QSub(top, bottom))
      c == QDiv(F(1), QSub(near, far))
      d == QDiv(QAdd(right, left), QSub(left, right))
      e == QDiv(QAdd(top, bottom), QSub(bottom, top))
      f == QDiv(near, QSub(near, far))
  IN << a, F(0), F(0), F(0),  F(0), b, F(0), F(0),
        F(0), F(0), c, F(0),  d, e, f, F(1) >>

\* tan(PI * 0.5 - 0.5 * fov_y * PI / 180), for the field of view of 90 degrees
TanHalfFov(fov_y) == F(1)

Mat4Perspective(fov_y, aspect_ratio, near, far) ==
  LET f == TanHalfFov(fov_y)
      range == QDiv(F(1), QSub(near, far))
      a == QDiv(f, aspect_ratio)
      c == QMul(far, range)
      d == QMul(QMul(near, far), range)
  IN << a, F(0), F(0), F(0),  F(0), f, F(0), F(0),
        F(0), F(0), c, F(-1),  F(0), F(0), d, F(0) >>

Mat4ViewRot(cam, target, up) ==
  Val1(LAMBDA fwd :
    Val1(LAMBDA right :
      Val1(LAMBDA n_up :
             << right[1], n_up[1], fwd[1], F(0),
                right[2], n_up[2], fwd[2], F(0),
                right[3], n_up[3], fwd[3], F(0),
                F(0), F(0), F(0), F(1) >>,
           Vec3Normalize(Vec3Cross(fwd, right))),
      Vec3Normalize(Vec3Cross(up, fwd))),
    Vec3Normalize(Vec3Sub(cam, target)))

\* ------------------------------------------------------ matrix inverse
\* m[0] * (m[4] * m[8] - m[5] * m[7]) - m[1] * (m[3] * m[8] - m[5] * m[6])
\*   + m[2] * (m[3] * m[7] - m[4] * m[6]), every operation rounded to f32
determinant_3x3(m) ==
  Val1(LAMBDA s :
         QAdd(QSub(QMul(s[1], QSub(QMul(s[5], s[9]), QMul(s[6], s[8]))),
                   QMul(s[2], QSub(QMul(s[4], s[9]), QMul(s[6], s[7])))),
              QMul(s[3], QSub(QMul(s[4], s[8]), QMul(s[5], s[7])))),
       m)

\* the 3x3 matrix left when row and col (counted from 0) are struck out
submatrix(m, row, col) ==
  [k \in 1..9 |->
     LET ri == (k - 1) \div 3
         ci == (k - 1) % 3
         i == IF ri < row THEN ri ELSE ri + 1
         j == IF ci < col THEN ci ELSE ci + 1
     IN m[i * 4 + j + 1]]

cofactor_4x4(m, row, col) ==
  QMul(determinant_3x3(submatrix(m, row, col)),
       IF (row + col) % 2 = 0 THEN F(1) ELSE F(-1))

\* det starts at 0.0 and takes m[i] * cofactor(0, i) for i = 0, 1, 2, 3
determinant_4x4(m) ==
  Val1(LAMBDA s :
         QAdd(QAdd(QAdd(QAdd(F(0), QMul(s[1], cofactor_4x4(s, 0, 0))),
                         QMul(s[2], cofactor_4x4(s, 0, 1))),
                   QMul(s[3], cofactor_4x4(s, 0, 2))),
              QMul(s[4], cofactor_4x4(s, 0, 3))),
       m)

\* the mutant: adjugate[i * 4 + j] = cofactor(i, j), the cofactor matrix
\* without its transposition
adjugate_4x4_untransposed(m) ==
  Val1(LAMBDA s :
         [k \in 1..16 |-> cofactor_4x4(s, (k - 1) \div 4, (k - 1) % 4)],
       m)

\* adjugate[j * 4 + i] = cofactor(i, j)
adjugate_4x4(m) ==
  Val1(LAMBDA s :
         [k \in 1..16 |-> cofactor_4x4(s, (k - 1) % 4, (k - 1) \div 4)],
       m)

\* Mat4::inverse : the identity when the computed determinant is 0.0
Mat4Inverse(src) ==
  Val1(LAMBDA det :
         IF det = F(0) THEN Mat4Identity
         ELSE Val1(LAMBDA adj : [k \in 1..16 |-> QDiv(adj[k], det)],
                   adjugate_4x4(src)),
       determinant_4x4(src))

\* a matrix of whole numbers
IntMat(m) == [k \in 1..16 |-> F(m[k])]

\* the matrix with the 2x2 block a b / c d in its upper left corner
Block(a, b, c, d) ==
  IntMat(<<a, b, 0, 0,  c, d, 0, 0,  0, 0, 1, 0,  0, 0, 0, 1>>)

MaxEntry == 2

\* the matrix inverted by the test mat4_inverse
InverseTestMatrix ==
  IntMat(<<1, 2, 3, 4,  5, 6, 7, 8,  9, 3, 2, 4,  0, 1, 2, 5>>)

\* whole numbers past 2^12, whose products of three need more than the 24
\* bits of an f32: a matrix whose last row is the sum of the two before it,
\* and a matrix of determinant -1
RowSumMatrix ==
  IntMat(<<1, 0, 0, 0,  0, 4097, 4097, 1,  0, 4097, 4098, 1,
           0, 8194, 8195, 2>>)
WideMatrix == Block(4097, 4098, 4098, 4099)

InverseInputs ==
  { Block(a, b, c, d) : a, b, c, d \in -1..MaxEntry }
    \cup { InverseTestMatrix, RowSumMatrix, WideMatrix,
           IntMat(<<0, 0, 0, 0,  0, 0, 0, 0,  0, 0, 0, 0,  0, 0, 0, 0>>),
           IntMat(<<1, 2, 3, 4,  2, 4, 6, 8,  0, 1, 0, 1,  1, 0, 0, 2>>),
           IntMat(<<0, 1, 0, 0,  0, 0, 1, 0,  0, 0, 0, 1,  1, 0, 0, 0>>),
           Mat4Translate(F(3), F(-2), F(5)),
           Mat4Scale(F(2), F(4), F(5)),
           Mat4Scale(F(2), F(0), F(1)),
           Mat4Multiply(Mat4Translate(F(1), F(2), F(3)),
                        Mat4Rotate(V3(0, 0, 1), 90)) }

ApplyInverse ==
  /\ calc.fn = "inverse" /\ ~calc.done
  /\ calc' = [calc EXCEPT !.out = Mat4Inverse(calc.in), !.done = TRUE]
  /\ UNCHANGED <<pipelines, textures, objects, deviceAlive, screenAlive,
                 panicked, op, pass, rpipelines, winit, calls>>

\* SpecInverse: Mat4::inverse applied to bounded matrices of whole numbers
InitInverse ==
  InitManagers /\ calc \in {Pending("inverse", x) : x \in InverseInputs}

NextInverse == ApplyInverse

SpecInverse == InitInverse /\ [][NextInverse]_vars

\* ---------------------------------------------------- rotation builders
LinAlgModules == {"math/lin_alg", "renderer/lin_alg"}

\* the mutant: the rotation turned the other way round
rotateReversed(module, axis, deg) ==
  IF module = "math/lin_alg" THEN Mat4Rotate(axis, 360 - deg)
  ELSE RendererMat4Rotate(axis, 360 - deg)

\* Mat4::rotate of either module
rotate(module, axis, deg) ==
  IF module = "math/lin_alg" THEN Mat4Rotate(axis, deg)
  ELSE RendererMat4Rotate(axis, deg)

MaxAxis == 1

RotateAxes == { V3(x, y, z) : x, y, z \in -MaxAxis..MaxAxis }
RotateAngles == {0, 30, 45, 60, 90, 180, 270}

RotateInputs ==
  { [module |-> m, axis |-> a, deg |-> d] :
    m \in LinAlgModules, a \in RotateAxes, d \in RotateAngles }

EulerInputs ==
  { [module |-> m, roll |-> r, pitch |-> p, yaw |-> y] :
    m \in LinAlgModules, r \in RotateAngles, p \in RotateAngles,
    y \in RotateAngles }

ApplyRotate ==
  /\ calc.fn = "rotate" /\ ~calc.done
  /\ calc' = [calc EXCEPT
       !.out = rotate(calc.in.module, calc.in.axis, calc.in.deg),
       !.done = TRUE]
  /\ UNCHANGED <<pipelines, textures, objects, deviceAlive, screenAlive,
                 panicked, op, pass, rpipelines, winit, calls>>

ApplyRotateEuler ==
  /\ calc.fn = "rotate_euler" /\ ~calc.done
  /\ calc' = [calc EXCEPT
       !.out = Mat4RotateEuler(calc.in.roll, calc.in.pitch, calc.in.yaw),
       !.done = TRUE]
  /\ UNCHANGED <<pipelines, textures, objects, deviceAlive, screenAlive,
                 panicked, op, pass, rpipelines, winit, calls>>

\* SpecRotate: rotate and rotate_euler applied to bounded axes and angles
InitRotate ==
  /\ InitManagers
  /\ \/ calc \in {Pending("rotate", x) : x \in RotateInputs}
     \/ calc \in {Pending("rotate_euler", x) : x \in EulerInputs}

NextRotate == ApplyRotate \/ ApplyRotateEuler

SpecRotate == InitRotate /\ [][NextRotate]_vars

\* ------------------------------------------------------------- cameras
ORTHOGRAPHIC == 1
PERSPECTIVE == 2

\* renderer/util.rs RCamera::default ; target_size <<>> is None
RCameraDefault ==
  [cam_type |-> ORTHOGRAPHIC, position |-> <<0, 0, 100>>,
   look_at |-> <<0, 0, 0>>, up |-> <<0, 1, 0>>, fov_y |-> 0,
   near |-> 0, far |-> 1000, target_size |-> <<>>]

\* render/shared.rs RenderCamera::default ; target_size is not optional
RenderCameraDefault == [RCameraDefault EXCEPT !.target_size = <<100, 100>>]

\* variant: the fallback camera is a perspective camera
DefaultCamPersp(variant) ==
  [RCameraDefault EXCEPT !.cam_type = PERSPECTIVE, !.position = <<0, 0, 1>>,
                         !.fov_y = 90, !.near = 1,
                         !.target_size = <<100, 100>>]

\* the default camera create_mvp falls back to: the manager's default_cam
\* field in renderer.rs, a fresh RenderCamera::default() in shared.rs
DefaultCam(variant) ==
  IF variant = "shared" THEN RenderCameraDefault ELSE RCameraDefault

\* ------------------------------------------- create_mvp, matrix by matrix
\* The arguments create_mvp passes to Mat4::ortho, in the order of its
\* parameters (left, right, top, bottom, near, far).
OrthoArgs(variant, w2, h2, cam) ==
  IF variant = "shared"
  THEN <<QNeg(w2), w2, h2, QNeg(h2), F(cam.near), F(cam.far)>>
  ELSE <<QNeg(w2), w2, QNeg(h2), h2, F(cam.near), F(cam.far)>>

\* the half sizes: of the camera's target size, or in renderer.rs of the
\* surface configuration by integer division when the camera has none
HalfSize(variant, cam, config) ==
  IF cam.target_size # <<>>
  THEN <<Q(cam.target_size[1], 2), Q(cam.target_size[2], 2)>>
  ELSE <<F(config[1] \div 2), F(config[2] \div 2)>>

\* variant: the model composed as (rotate x scale) x translate
ModelMatrixRotateFirst(update) ==
  LET t == update.translate
      s == update.scale
      r == update.rotate
      model_t == Mat4Translate(F(t[1]), F(t[2]), F(t[3]))
      model_r == IF r.kind = "AxisAngle"
                 THEN Mat4Rotate(V3(r.axis[1], r.axis[2], r.axis[3]), r.deg)
                 ELSE Mat4RotateEuler(r.euler[1], r.euler[2], r.euler[3])
      model_s == Mat4Scale(F(s[1]), F(s[2]), F(s[3]))
  IN Mat4Multiply(Mat4Multiply(model_r, model_s), model_t)

ModelMatrix(update) ==
  LET t == update.translate
      s == update.scale
      r == update.rotate
      model_t == Mat4Translate(F(t[1]), F(t[2]), F(t[3]))
      model_r == IF r.kind = "AxisAngle"
                 THEN Mat4Rotate(V3(r.axis[1], r.axis[2], r.axis[3]), r.deg)
                 ELSE Mat4RotateEuler(r.euler[1], r.euler[2], r.euler[3])
      model_s == Mat4Scale(F(s[1]), F(s[2]), F(s[3]))
  IN Mat4Multiply(model_t, Mat4Multiply(model_s, model_r))

ViewMatrix(cam) ==
  LET p == cam.position
      view_t == Mat4Translate(F(-p[1]), F(-p[2]), F(-p[3]))
      view_r == Mat4ViewRot(V3(p[1], p[2], p[3]),
                            V3(cam.look_at[1], cam.look_at[2], cam.look_at[3]),
                            V3(cam.up[1], cam.up[2], cam.up[3]))
  IN Mat4Multiply(view_r, view_t)

ProjMatrix(variant, cam, config) ==
  Val1(LAMBDA half :
         LET o == OrthoArgs(variant, half[1], half[2], cam)
         IN IF cam.cam_type = ORTHOGRAPHIC
            THEN Mat4Ortho(o[1], o[2], o[3], o[4], o[5], o[6])
            ELSE IF cam.cam_type = PERSPECTIVE
            THEN Mat4Perspective(cam.fov_y, QDiv(half[1], half[2]), F(cam.near),
                                 F(cam.far))
            ELSE Mat4Identity,
       HalfSize(variant, cam, config))

\* the camera create_mvp uses for an update
CameraOf(variant, update) ==
  IF update.camera = <<>> THEN DefaultCam(variant) ELSE update.camera[1]

\* create_mvp of renderer/renderer.rs (variant "renderer") and of
\* render/shared.rs (variant "shared"): model, view and projection, 48 floats
create_mvp(variant, update, config) ==
  LET cam == CameraOf(variant, update)
  IN ModelMatrix(update) \o ViewMatrix(cam) \o ProjMatrix(variant, cam, config)

\* ------------------------------------------------ inputs of create_mvp
Variants == {"renderer", "shared"}
Configs == {<<800, 600>>, <<801, 601>>, <<1, 1>>}
Positions == {<<0, 0, 0>>, <<10, 20, 0>>}
Scales == {<<1, 1, 1>>, <<2, 3, 1>>}

\* an orthographic camera with its own target size, and a perspective camera
CamOrthoSized(variant) ==
  [DefaultCam(variant) EXCEPT !.near = 1, !.far = 11, !.target_size = <<200, 100>>]
CamPersp(variant) ==
  [DefaultCam(variant) EXCEPT !.cam_type = PERSPECTIVE, !.position = <<0, 0, 1>>,
                              !.fov_y = 90, !.near = 1, !.far = 11]

Cameras(variant) ==
  { <<>>, <<DefaultCam(variant)>>, <<CamOrthoSized(variant)>>,
    <<CamPersp(variant)>> }

Rotated(u) ==
  { u, with_rotation(u, <<0, 0, 1>>, 90), with_rotation(u, <<0, 2, 0>>, 180),
    with_euler_rotation(u, 90, 0, 270) }

MvpUpdates(variant) ==
  UNION { Rotated([with_scale(with_position(DefaultUpdate, t), s)
                     EXCEPT !.camera = c]) :
          t \in Positions, s \in Scales, c \in Cameras(variant) }

MvpInputs ==
  UNION { { [variant |-> v, update |-> u, config |-> c] :
            u \in MvpUpdates(v), c \in Configs } : v \in Variants }

ApplyCreateMvp ==
  /\ calc.fn = "create_mvp" /\ ~calc.done
  /\ calc' = [calc EXCEPT
       !.out = create_mvp(calc.in.variant, calc.in.update, calc.in.config),
       !.done = TRUE]
  /\ UNCHANGED <<pipelines, textures, objects, deviceAlive, screenAlive,
                 panicked, op, pass, rpipelines, winit, calls>>

\* SpecMvp: create_mvp applied to bounded updates, cameras and surface sizes
InitMvp ==
  InitManagers /\ calc \in {Pending("create_mvp", x) : x \in MvpInputs}

NextMvp == ApplyCreateMvp

SpecMvp == InitMvp /\ [][NextMvp]_vars

\* ------------------------------------------------- the update builder
\* A chain of builder calls applied to RObjectUpdate::default(); each step is
\* named by its method and carries fixed arguments.
BuilderSteps ==
  { "with_position", "with_rotation", "with_euler_rotation", "with_scale",
    "with_camera", "with_color", "with_round_border", "with_anim" }

ApplyStep(u, step) ==
  CASE step = "with_position" -> with_position(u, <<10, 20, 0>>)
    [] step = "with_rotation" -> with_rotation(u, <<0, 0, 1>>, 90)
    [] step = "with_euler_rotation" -> with_euler_rotation(u, 90, 0, 270)
    [] step = "with_scale" -> with_scale(u, <<2, 3, 1>>)
    [] step = "with_camera" -> with_camera(u, CamPersp("renderer"))
    [] step = "with_color" -> with_color(u, <<1, 0, 0, 1>>)
    [] step = "with_round_border" -> with_round_border(u, <<6, 5>>, 7)
    [] OTHER -> with_anim(u, Transforms(1))

RECURSIVE Build(_, _)
Build(u, steps) ==
  IF steps = <<>> THEN u ELSE Build(ApplyStep(u, Head(steps)), Tail(steps))

MaxChain == 2

BuilderChains ==
  UNION { [1..n -> BuilderSteps] : n \in 0..MaxChain }

ApplyBuilder ==
  /\ calc.fn = "builder" /\ ~calc.done
  /\ calc' = [calc EXCEPT !.out = Build(DefaultUpdate, calc.in), !.done = TRUE]
  /\ UNCHANGED <<pipelines, textures, objects, deviceAlive, screenAlive,
                 panicked, op, pass, rpipelines, winit, calls>>

\* SpecBuilder: chains of builder calls on the default update
InitBuilder ==
  InitManagers /\ calc \in {Pending("builder", c) : c \in BuilderChains}

NextBuilder == ApplyBuilder

SpecBuilder == InitBuilder /\ [][NextBuilder]_vars

\* ===================================================== main.rs frame driver
\* One action per winit callback of WinitApp; each records in `calls` the calls
\* it made on the renderer and on the application, in order.
Keys == {"KeyA"}
Buttons == {"Left", "Right"}
WinSizes == {<<0, 0>>, <<400, 300>>, <<801, 601>>}
SurfaceResults == {"Ok", "Lost", "Outdated", "OutOfMemory", "Timeout"}

Call(name, size, result) == [call |-> name, size |-> size, result |-> result]

\* Renderer::resize_screen : reconfigures only for a non-empty size
ResizeScreen(r, size) ==
  IF size[1] > 0 /\ size[2] > 0 THEN [r EXCEPT !.config = size] ELSE r

\* ApplicationHandler::resumed : the window and the renderer are created
Resumed ==
  /\ ~winit.exited
  /\ ~winit.renderer.some
  /\ winit' = [winit EXCEPT !.renderer = [some |-> TRUE, config |-> DEFAULT_SIZE]]
  /\ calls' = <<Call("init", DEFAULT_SIZE, "")>>
  /\ UNCHANGED <<pipelines, textures, objects, deviceAlive, screenAlive,
                 panicked, op, pass, rpipelines, calc>>

\* WindowEvent::Resized
\* the mutant: the new size is stored, the resize is not flagged
ResizedUnflagged(phys_size) ==
  /\ ~winit.exited
  /\ winit' = [winit EXCEPT !.window_size = phys_size]
  /\ calls' = <<>>
  /\ UNCHANGED <<pipelines, textures, objects, deviceAlive, screenAlive,
                 panicked, op, pass, rpipelines, calc>>

Resized(phys_size) ==
  /\ ~winit.exited
  /\ winit' = [winit EXCEPT !.resize_state = 1, !.window_size = phys_size]
  /\ calls' = <<>>
  /\ UNCHANGED <<pipelines, textures, objects, deviceAlive, screenAlive,
                 panicked, op, pass, rpipelines, calc>>

\* WindowEvent::KeyboardInput : a non-repeat press stores Pressed, a release
\* stores Released, a repeated press stores nothing
KeyboardInput(key, is_pressed, repeat) ==
  /\ ~winit.exited
  /\ winit' = IF is_pressed /\ ~repeat
              THEN [winit EXCEPT !.input_cache[key] = "Pressed"]
              ELSE IF ~is_pressed
              THEN [winit EXCEPT !.input_cache[key] = "Released"]
              ELSE winit
  /\ calls' = <<>>
  /\ UNCHANGED <<pipelines, textures, objects, deviceAlive, screenAlive,
                 panicked, op, pass, rpipelines, calc>>

\* WindowEvent::MouseInput
MouseInput(button, is_pressed) ==
  /\ ~winit.exited
  /\ LET st == IF is_pressed THEN "Pressed" ELSE "Released" IN
       winit' = IF button = "Left"
                THEN [winit EXCEPT !.mouse_cache.left = st]
                ELSE [winit EXCEPT !.mouse_cache.right = st]
  /\ calls' = <<>>
  /\ UNCHANGED <<pipelines, textures, objects, deviceAlive, screenAlive,
                 panicked, op, pass, rpipelines, calc>>

\* the end of RedrawRequested: Pressed becomes Down, Released is removed
CleanKey(st) ==
  IF st = "Pressed" THEN "Down" ELSE IF st = "Released" THEN "absent" ELSE st

CleanButton(st) ==
  IF st = "Pressed" THEN "Down" ELSE IF st = "Released" THEN "None" ELSE st

\* variant: a lost surface is not reconfigured
AfterRenderNoReconfigure(r, size, result) ==
  [renderer |-> r, calls |-> <<>>, exit |-> result = "OutOfMemory"]

\* what RedrawRequested does after render_to_screen returned `result`
AfterRender(r, size, result) ==
  IF result \in {"Lost", "Outdated"}
  THEN [renderer |-> ResizeScreen(r, size),
        calls |-> <<Call("resize_screen", size, "")>>, exit |-> FALSE]
  ELSE [renderer |-> r, calls |-> <<>>, exit |-> result = "OutOfMemory"]

\* WindowEvent::RedrawRequested; `result` is what render_to_screen returns
RedrawRequested(result) ==
  /\ ~winit.exited
  /\ IF winit.resize_state = 1
     THEN \* skip frame if window is being resized
          /\ winit' = [winit EXCEPT !.resize_state = 2]
          /\ calls' = <<>>
     ELSE LET size == winit.window_size
              resizing == winit.resize_state = 2 /\ winit.renderer.some
              r1 == IF resizing THEN ResizeScreen(winit.renderer, size)
                    ELSE winit.renderer
              c1 == IF resizing
                    THEN <<Call("resize_screen", size, ""),
                           Call("app.resize", size, "")>>
                    ELSE <<>>
              after == AfterRender(r1, size, result)
              c2 == IF winit.renderer.some
                    THEN <<Call("app.update", size, ""),
                           Call("render_to_screen", r1.config, result)>>
                         \o after.calls
                    ELSE <<>>
          IN /\ winit' = [winit EXCEPT
                  !.resize_state = 0,
                  !.renderer = IF winit.renderer.some THEN after.renderer ELSE @,
                  !.exited = winit.renderer.some /\ after.exit,
                  !.input_cache = [k \in Keys |-> CleanKey(@[k])],
                  !.mouse_cache = [left |-> CleanButton(@.left),
                                   right |-> CleanButton(@.right)]]
             /\ calls' = c1 \o c2
  /\ UNCHANGED <<pipelines, textures, objects, deviceAlive, screenAlive,
                 panicked, op, pass, rpipelines, calc>>

\* SpecDriver: the winit event loop delivering events to WinitApp
NextDriver ==
  \/ Resumed
  \/ \E sz \in WinSizes : Resized(sz)
  \/ \E k \in Keys, pr \in BOOLEAN, rp \in BOOLEAN : KeyboardInput(k, pr, rp)
  \/ \E b \in Buttons, pr \in BOOLEAN : MouseInput(b, pr)
  \/ \E res \in SurfaceResults : RedrawRequested(res)

SpecDriver == Init /\ [][NextDriver]_vars

\* =========================================================== SDF math
\* utils/sdf.rs and math/sdf.rs hold the same functions in two versions; the
\* parameter `variant` names the file. Points and sizes are pairs of floats.
V2(x, y) == <<F(x), F(y)>>
Vec2Add(a, b) ==
  Val2(LAMBDA x, y : <<QAdd(x[1], y[1]), QAdd(x[2], y[2])>>, a, b)
Vec2Sub(a, b) ==
  Val2(LAMBDA x, y : <<QSub(x[1], y[1]), QSub(x[2], y[2])>>, a, b)
Vec2Scale(a, s) ==
  Val2(LAMBDA x, y : <<QMul(x[1], y), QMul(x[2], y)>>, a, s)
Vec2Dot(a, b) ==
  Val2(LAMBDA x, y : QAdd(QMul(x[1], y[1]), QMul(x[2], y[2])), a, b)

\* Vec2::magnitude : sqrt(x * x + y * y). When the smaller component is below
\* 1 / 5793 of the larger one its square is below half the f32 spacing at the
\* larger square (2^-25 of it), so the sum rounds to the larger square and the
\* root is the larger component.
Vec2Magnitude(v) ==
  Val1(LAMBDA w :
         LET ax == QAbs(w[1])
             ay == QAbs(w[2])
             big == QMax(ax, ay)
             small == QMin(ax, ay)
         IN IF QFinite(ax) /\ QFinite(ay) /\ QLt(QMul(small, F(5793)), big)
            THEN big
            ELSE QSqrt(Vec2Dot(w, w)),
       v)

\* Vec2::normalize, as Vec3::normalize does it: the zero vector for a
\* magnitude below 0.00001
Vec2Normalize(v) ==
  Val2(LAMBDA w, n :
         IF QLt(n, Q(1, 100000)) THEN V2(0, 0)
         ELSE <<QDiv(w[1], n), QDiv(w[2], n)>>,
       v, Vec2Magnitude(v))

\* f32::clamp, which hands a NaN through
QClamp(x, lo, hi) ==
  Val1(LAMBDA v : IF QIsNaN(v) THEN v ELSE IF QLt(v, lo) THEN lo
                  ELSE IF QGt(v, hi) THEN hi ELSE v, x)

signed_dist_to_cir(point, cir_center, cir_radius) ==
  QSub(Vec2Magnitude(Vec2Sub(cir_center, point)), cir_radius)

\* what is subtracted from the centred point: rect_size as it is in the two
\* sdf.rs files, rect_size * 0.5 in math/physics.rs
RectExtentHalved(variant, rect_size) == Vec2Scale(rect_size, Q(1, 2))

RectExtent(variant, rect_size) ==
  IF variant = "math/physics" THEN Vec2Scale(rect_size, Q(1, 2)) ELSE rect_size

\* rect_rotation is <<>> for None and <<deg>> for Some(deg)
signed_dist_to_rect(variant, point, rect_center, rect_size, rect_rotation) ==
  LET rot_p == IF rect_rotation = <<>> THEN point
               ELSE Val1(LAMBDA rel :
                           LET c == Cos(-rect_rotation[1])
                               s == Sin(-rect_rotation[1])
                           IN <<QAdd(QSub(QMul(rel[1], c), QMul(rel[2], s)),
                                     rect_center[1]),
                                QAdd(QAdd(QMul(rel[2], c), QMul(rel[1], s)),
                                     rect_center[2])>>,
                         Vec2Sub(point, rect_center))
      Pos(abs0) == <<IF QLt(abs0[1], F(0)) THEN QNeg(abs0[1]) ELSE abs0[1],
                     IF QLt(abs0[2], F(0)) THEN QNeg(abs0[2]) ELSE abs0[2]>>
      Clip(d0) == <<IF QLt(d0[1], F(0)) THEN F(0) ELSE d0[1],
                    IF QLt(d0[2], F(0)) THEN F(0) ELSE d0[2]>>
  IN Val1(LAMBDA abs_p :
            Val1(LAMBDA d0 :
                   LET outer == Vec2Magnitude(Clip(d0))
                       inner == QMin(QMax(d0[1], d0[2]), F(0))
                   IN QAdd(outer, inner),
                 Vec2Sub(abs_p, RectExtent(variant, rect_size))),
          Val1(Pos, Vec2Sub(rot_p, rect_center)))

\* the closest point of the edge e starting at the corner the vector v is
\* taken from: v - e * clamp(v.e / e.e, 0, 1)
EdgeOffset(v, e) ==
  Val2(LAMBDA x, y :
         Vec2Sub(x, Vec2Scale(y, QClamp(QDiv(Vec2Dot(x, y), Vec2Dot(y, y)),
                                        F(0), F(1)))),
       v, e)

Cross2(a, b) ==
  Val2(LAMBDA x, y : QSub(QMul(x[1], y[2]), QMul(x[2], y[1])), a, b)

Min3(a, b, c) ==
  Val2(LAMBDA ab, z : IF QLt(z, ab) THEN z ELSE ab,
       Val2(LAMBDA x, y : IF QLt(y, x) THEN y ELSE x, a, b), c)

\* the winding factor: the cross product itself in utils/sdf.rs, its sign in
\* math/sdf.rs
Winding(variant, e0, e2) ==
  Val1(LAMBDA o : IF variant = "utils/sdf" THEN o
                  ELSE IF QGt(o, F(0)) THEN F(1) ELSE F(-1),
       Cross2(e0, e2))

signed_dist_to_triangle(variant, point, center, p0, p1, p2) ==
  Val1(LAMBDA np :
         LET e0 == Vec2Sub(p1, p0)
             e1 == Vec2Sub(p2, p1)
             e2 == Vec2Sub(p0, p2)
             v0 == Vec2Sub(np, p0)
             v1 == Vec2Sub(np, p1)
             v2 == Vec2Sub(np, p2)
             Sq(pq) == Vec2Dot(pq, pq)
             min_d == Min3(Val1(Sq, EdgeOffset(v0, e0)), Val1(Sq, EdgeOffset(v1, e1)),
                           Val1(Sq, EdgeOffset(v2, e2)))
         IN Val1(LAMBDA o :
                   LET min_y == Min3(QMul(o, Cross2(v0, e0)), QMul(o, Cross2(v1, e1)),
                                     QMul(o, Cross2(v2, e2)))
                       sign == IF QGt(min_y, F(0)) THEN F(-1) ELSE F(1)
                   IN QMul(QSqrt(min_d), sign),
                 Winding(variant, e0, e2)),
       Vec2Sub(point, center))

signed_dist_to_line(point, p0, p1) ==
  Val2(LAMBDA pa, ba :
         Vec2Magnitude(Vec2Sub(pa, Vec2Scale(ba,
           QClamp(QDiv(Vec2Dot(pa, ba), Vec2Dot(ba, ba)), F(0), F(1))))),
       Vec2Sub(point, p0), Vec2Sub(p1, p0))

signed_dist_with_corner(sd, radius) == QSub(sd, radius)

signed_dist_as_border(sd, thickness) == QSub(QAbs(sd), thickness)

\* SDFObject / RSDFObject; rotation is kept in whole degrees
SDFObjectDefault ==
  [obj_type |-> "None", center |-> V2(0, 0), radius |-> F(10),
   rect_size |-> V2(0, 0), corner_radius |-> F(0), rotation |-> 0,
   line_thickness |-> F(0), tri_size |-> <<V2(0, 0), V2(0, 0)>>]

SDFCircle(pos, r) ==
  [SDFObjectDefault EXCEPT !.obj_type = "Circle", !.center = pos, !.radius = r]

SDFRect(pos, size, angle) ==
  [SDFObjectDefault EXCEPT
     !.obj_type = IF angle = <<>> THEN "Rectangle" ELSE "RectAngled",
     !.rotation = IF angle = <<>> THEN 0 ELSE angle[1],
     !.center = pos, !.rect_size = size]

SDFTriangle(pos, rel_p1, rel_p2) ==
  [SDFObjectDefault EXCEPT !.obj_type = "Triangle", !.center = pos,
                           !.tri_size = <<rel_p1, rel_p2>>]

SDFLine(p1, p2, thickness) ==
  [SDFObjectDefault EXCEPT !.obj_type = "Line", !.center = p1,
                           !.rect_size = p2, !.line_thickness = thickness]

with_corner(obj, radius) == [obj EXCEPT !.corner_radius = radius]

as_line(obj, thickness) == [obj EXCEPT !.line_thickness = thickness]

\* the distance of one object before rounding and border: the match of
\* calculate_sdf, whose Line arm only utils/sdf.rs has
ShapeDist(variant, p, max_dist, obj) ==
  CASE obj.obj_type = "Circle" -> signed_dist_to_cir(p, obj.center, obj.radius)
    [] obj.obj_type = "Rectangle" ->
         signed_dist_to_rect(variant, p, obj.center, obj.rect_size, <<>>)
    [] obj.obj_type = "RectAngled" ->
         signed_dist_to_rect(variant, p, obj.center, obj.rect_size, <<obj.rotation>>)
    [] obj.obj_type = "Triangle" ->
         signed_dist_to_triangle(variant, p, obj.center, V2(0, 0),
                                 obj.tri_size[1], obj.tri_size[2])
    [] obj.obj_type = "Line" /\ variant = "utils/sdf" ->
         signed_dist_to_line(p, obj.center, obj.rect_size)
    [] OTHER -> max_dist

\* variant: the border taken first and the rounding second
ObjectDistBorderFirst(variant, p, max_dist, obj) ==
  Val1(LAMBDA d1 :
         IF QGt(obj.corner_radius, F(0))
         THEN signed_dist_with_corner(d1, obj.corner_radius) ELSE d1,
       Val1(LAMBDA d0 :
              IF QGt(obj.line_thickness, F(0))
              THEN signed_dist_as_border(d0, obj.line_thickness) ELSE d0,
            ShapeDist(variant, p, max_dist, obj)))

ObjectDist(variant, p, max_dist, obj) ==
  Val1(LAMBDA d1 :
         IF QGt(obj.line_thickness, F(0))
         THEN signed_dist_as_border(d1, obj.line_thickness) ELSE d1,
       Val1(LAMBDA d0 :
              IF QGt(obj.corner_radius, F(0))
              THEN signed_dist_with_corner(d0, obj.corner_radius) ELSE d0,
            ShapeDist(variant, p, max_dist, obj)))

\* the accumulation step of calculate_sdf
SdfAccumulateLast(sdf, d) == d

SdfAccumulate(sdf, d) ==
  Val2(LAMBDA x, y : IF QLt(y, x) THEN y ELSE x, sdf, d)

RECURSIVE SdfLoop(_, _, _, _, _)
SdfLoop(variant, p, max_dist, objs, sdf) ==
  IF objs = <<>> THEN sdf
  ELSE Val1(LAMBDA next : SdfLoop(variant, p, max_dist, Tail(objs), next),
            SdfAccumulate(sdf, ObjectDist(variant, p, max_dist, Head(objs))))

calculate_sdf(variant, p, max_dist, objs) ==
  Val2(LAMBDA point, list : SdfLoop(variant, point, max_dist, list, max_dist),
       p, objs)

\* ---- calculate_sdf applied to bounded points, limits and object lists
SdfVariants == {"utils/sdf", "math/sdf"}
SdfPoints == {V2(0, 0), V2(5, 0), V2(1, 1), V2(-3, 4)}
SdfMaxDists == {F(5), F(100)}

SdfObjectPool ==
  { SDFCircle(V2(0, 0), F(2)),
    SDFRect(V2(3, 0), V2(2, 1), <<>>),
    SDFRect(V2(0, 3), V2(2, 1), <<90>>),
    SDFTriangle(V2(0, 0), V2(4, 0), V2(0, 3)),
    SDFLine(V2(-2, -2), V2(2, -2), F(1)),
    as_line(with_corner(SDFCircle(V2(4, 4), F(3)), F(1)), F(1)),
    as_line(with_corner(SDFRect(V2(0, 0), V2(2, 2), <<>>), F(1)), F(1)),
    as_line(with_corner(SDFCircle(V2(5, 0), F(1)), F(-1)), F(0)) }

MaxSdfObjects == 2

SdfObjectLists == UNION { [1..n -> SdfObjectPool] : n \in 0..MaxSdfObjects }

SdfInputs ==
  [variant : SdfVariants, p : SdfPoints, max_dist : SdfMaxDists,
   objs : SdfObjectLists]

ApplyCalculateSdf ==
  /\ calc.fn = "calculate_sdf" /\ ~calc.done
  /\ calc' = [calc EXCEPT
       !.out = calculate_sdf(calc.in.variant, calc.in.p, calc.in.max_dist,
                             calc.in.objs),
       !.done = TRUE]
  /\ UNCHANGED <<pipelines, textures, objects, deviceAlive, screenAlive,
                 panicked, op, pass, rpipelines, winit, calls>>

InitSdf ==
  InitManagers /\ calc \in {Pending("calculate_sdf", x) : x \in SdfInputs}

NextSdf == ApplyCalculateSdf

SpecSdf == InitSdf /\ [][NextSdf]_vars

\* ---- signed_dist_to_rect as each module calls it
\* utils/physics.rs defines no signed_dist_to_rect: its `use super::*` brings
\* in the one utils/mod.rs re-exports from utils/sdf.rs. math/physics.rs
\* defines its own.
RectModules == {"utils/sdf", "math/sdf", "utils/physics", "math/physics"}

RectTarget(module) == IF module = "utils/physics" THEN "utils/sdf" ELSE module

MaxCoord == 6

RectPoints == {V2(x, y) : x \in -1..MaxCoord, y \in -1..MaxCoord}
RectSizes == {V2(2, 2), V2(4, 4), V2(4, 1), V2(3, 5)}
RectCenters == {V2(0, 0), V2(1, -1)}

RectInputs ==
  [module : RectModules, point : RectPoints, center : RectCenters,
   size : RectSizes]

ApplySignedDistToRect ==
  /\ calc.fn = "signed_dist_to_rect" /\ ~calc.done
  /\ calc' = [calc EXCEPT
       !.out = signed_dist_to_rect(RectTarget(calc.in.module), calc.in.point,
                                   calc.in.center, calc.in.size, <<>>),
       !.done = TRUE]
  /\ UNCHANGED <<pipelines, textures, objects, deviceAlive, screenAlive,
                 panicked, op, pass, rpipelines, winit, calls>>

InitRect ==
  InitManagers /\ calc \in {Pending("signed_dist_to_rect", x) : x \in RectInputs}

NextRect == ApplySignedDistToRect

SpecRect == InitRect /\ [][NextRect]_vars

\* ---- ray_march_dist, one action per step of its loop
\* The loop state is kept in calc.out: pc is "start" before the first
\* calculate_sdf, "loop" at the loop test and "done" after the return; iter
\* exists only in utils/sdf.rs and stays 0 for math/sdf.rs.
IterCap == 99999

HitEps == Q(999, 1000)

RayState0 ==
  [pc |-> "start", p |-> V2(0, 0), sdf |-> F(0), ray_dist |-> F(0),
   iter |-> 0, ret |-> F(0)]

\* the loop test: utils/sdf.rs also bounds the iterations
LoopCond(in, st) ==
  /\ QLt(st.ray_dist, in.max_dist)
  /\ QGt(st.sdf, HitEps)
  /\ in.variant = "utils/sdf" => st.iter < IterCap

\* the state after one execution of the loop body
LoopBody(in, st) ==
  Val1(LAMBDA p :
         Val1(LAMBDA sdf :
                [st EXCEPT !.p = p, !.sdf = sdf,
                           !.ray_dist = QAdd(st.ray_dist, sdf),
                           !.iter = IF in.variant = "utils/sdf"
                                    THEN st.iter + 1 ELSE 0],
              calculate_sdf(in.variant, p, in.max_dist, in.objs)),
       Vec2Add(st.p, Vec2Scale(Vec2Normalize(in.dir), st.sdf)))

\* the value returned: utils/sdf.rs clamps to max_dist, math/sdf.rs returns
\* ray_dist as it is
RayResultClamped(in, st) ==
  IF QGt(st.ray_dist, in.max_dist) THEN in.max_dist ELSE st.ray_dist

RayResult(in, st) ==
  IF in.variant = "utils/sdf" THEN RayResultClamped(in, st) ELSE st.ray_dist

RayStart ==
  /\ calc.fn = "ray_march_dist" /\ calc.out.pc = "start"
  /\ calc' = [calc EXCEPT !.out =
       Val1(LAMBDA sdf : [RayState0 EXCEPT !.pc = "loop", !.p = calc.in.origin,
                                           !.sdf = sdf, !.ray_dist = sdf],
            calculate_sdf(calc.in.variant, calc.in.origin, calc.in.max_dist,
                          calc.in.objs))]
  /\ UNCHANGED <<pipelines, textures, objects, deviceAlive, screenAlive,
                 panicked, op, pass, rpipelines, winit, calls>>

RayStep ==
  /\ calc.fn = "ray_march_dist" /\ calc.out.pc = "loop"
  /\ LoopCond(calc.in, calc.out)
  /\ calc' = [calc EXCEPT !.out = LoopBody(calc.in, calc.out)]
  /\ UNCHANGED <<pipelines, textures, objects, deviceAlive, screenAlive,
                 panicked, op, pass, rpipelines, winit, calls>>

RayReturn ==
  /\ calc.fn = "ray_march_dist" /\ calc.out.pc = "loop"
  /\ ~LoopCond(calc.in, calc.out)
  /\ calc' = [calc EXCEPT !.out.pc = "done",
                          !.out.ret = RayResult(calc.in, calc.out),
                          !.done = TRUE]
  /\ UNCHANGED <<pipelines, textures, objects, deviceAlive, screenAlive,
                 panicked, op, pass, rpipelines, winit, calls>>

\* inputs: short rays among shapes on the ray's line, from outside and from
\* inside a shape, with a zero-length direction, an empty list and limits that
\* are not positive; and one long ray along the edge of a far rectangle
RayOrigins == {V2(0, 0), V2(-3, 0)}
RayDirs == {V2(1, 0), V2(-1, 0), V2(2, 0), V2(0, 1), V2(0, 0)}
RayMaxDists == {F(20), F(8), F(0), F(-1)}

RayObjectLists ==
  { <<>>,
    <<SDFCircle(V2(10, 0), F(2))>>,
    <<SDFRect(V2(0, 0), V2(2, 2), <<>>)>>,
    <<SDFRect(V2(0, 0), V2(2, 2), <<>>), SDFCircle(V2(10, 0), F(2))>>,
    <<SDFCircle(V2(-3, 10), F(4))>> }

FarRect == SDFRect(V2(50000000, -3), V2(30000000, 2), <<>>)

LongRay ==
  [origin |-> V2(0, 0), dir |-> V2(1, 0), max_dist |-> F(60000000),
   objs |-> <<FarRect>>]

RayInputs ==
  { [variant |-> v, origin |-> r.origin, dir |-> r.dir,
     max_dist |-> r.max_dist, objs |-> r.objs] :
      v \in SdfVariants,
      r \in [origin : RayOrigins, dir : RayDirs, max_dist : RayMaxDists,
             objs : RayObjectLists] \cup {LongRay} }

InitRay ==
  /\ InitManagers
  /\ calc \in { [fn |-> "ray_march_dist", in |-> x, out |-> RayState0,
                 done |-> FALSE] : x \in RayInputs }

NextRay == RayStart \/ RayStep \/ RayReturn

SpecRay == InitRay /\ [][NextRay]_vars

\* ============================== render/text_engine.rs : create_texture
\* The pixel buffer holds four bytes per pixel of the texture; the draw of
\* the text buffer reports one (x, y, colour) at a time to the callback.
MaxTexture == 2
MaxDraws == 2

TextureSizes == { <<w, h>> : w, h \in 1..MaxTexture }

\* the coordinates a glyph can be reported at: the largest texture and one
\* pixel around it
PixelCoords == -1..MaxTexture

\* r, g, b, a of the text colour
TextColor == <<10, 20, 30, 40>>

\* let idx = (y * texture_size.width as i32 + x) * 4;
PixelIndex(size, x, y) == (y * size[1] + x) * 4

\* the callback: an index below 0 or above the length is skipped; any other
\* index is written, and an index that is not in the buffer makes the
\* indexing panic
DrawPixel(buf, size, x, y, color) ==
  LET idx == PixelIndex(size, x, y) IN
    IF idx < 0 THEN [buf |-> buf, panic |-> FALSE]
    ELSE IF idx > Len(buf) THEN [buf |-> buf, panic |-> FALSE]
    ELSE IF idx >= Len(buf) THEN [buf |-> buf, panic |-> TRUE]
    ELSE [buf |-> [i \in 1..Len(buf) |->
                     IF i > idx /\ i <= idx + 4 THEN color[i - idx]
                     ELSE buf[i]],
          panic |-> FALSE]

\* vec![0; (texture_size.width * texture_size.height * 4) as usize]
TextCreateBuffer ==
  /\ calc.fn = "create_texture" /\ ~calc.done /\ calc.out.pc = "start"
  /\ calc' = [calc EXCEPT !.out =
       [pc |-> "draw",
        pixel_buffer |-> [i \in 1..(calc.in.size[1] * calc.in.size[2] * 4) |-> 0],
        drawn |-> 0, last |-> <<>>]]
  /\ UNCHANGED <<pipelines, textures, objects, deviceAlive, screenAlive,
                 panicked, op, pass, rpipelines, winit, calls>>

\* text_buffer.draw reports the pixel (x, y)
TextDrawPixel(x, y) ==
  /\ calc.fn = "create_texture" /\ ~calc.done /\ calc.out.pc = "draw"
  /\ panicked = ""
  /\ calc.out.drawn < MaxDraws
  /\ LET r == DrawPixel(calc.out.pixel_buffer, calc.in.size, x, y, TextColor) IN
       /\ calc' = [calc EXCEPT !.out.pixel_buffer = r.buf,
                               !.out.drawn = @ + 1,
                               !.out.last = <<x, y>>]
       /\ panicked' = IF r.panic THEN "index out of bounds" ELSE ""
  /\ UNCHANGED <<pipelines, textures, objects, deviceAlive, screenAlive,
                 op, pass, rpipelines, winit, calls>>

\* queue.write_texture, then the texture is returned
TextWriteTexture ==
  /\ calc.fn = "create_texture" /\ ~calc.done /\ calc.out.pc = "draw"
  /\ panicked = ""
  /\ calc' = [calc EXCEPT !.out.pc = "written", !.done = TRUE]
  /\ UNCHANGED <<pipelines, textures, objects, deviceAlive, screenAlive,
                 panicked, op, pass, rpipelines, winit, calls>>

\* SpecText: create_texture on bounded texture sizes and reported pixels
InitText ==
  /\ InitManagers
  /\ calc \in { [fn |-> "create_texture",
                 in |-> [size |-> s],
                 out |-> [pc |-> "start", pixel_buffer |-> <<>>, drawn |-> 0,
                          last |-> <<>>],
                 done |-> FALSE] : s \in TextureSizes }

NextText ==
  \/ TextCreateBuffer
  \/ \E x \in PixelCoords, y \in PixelCoords : TextDrawPixel(x, y)
  \/ TextWriteTexture

SpecText == InitText /\ [][NextText]_vars

\* ================================================================ claims

\* C1: over add_pipeline, add_texture, add_object and update_object calls the
\* object table only grows at its end, and every existing entry keeps its
\* vertex buffer, index buffer, bind group, uniform buffers and pipeline.
SameResources(a, b) ==
  /\ a.v_buffer = b.v_buffer
  /\ a.index_buffer = b.index_buffer
  /\ a.bind_group0 = b.bind_group0
  /\ Len(a.buffers0) = Len(b.buffers0)
  /\ \A k \in 1..Len(a.buffers0) : a.buffers0[k].id = b.buffers0[k].id
  /\ a.pipe_id = b.pipe_id

C1_HandleStable ==
  [][ op'.name \in {"add_pipeline", "add_texture", "add_object", "update_object"}
      => /\ Len(objects') >= Len(objects)
         /\ Len(objects') <= Len(objects) + 1
         /\ \A i \in 1..Len(objects) : SameResources(objects[i], objects'[i]) ]_vars

\* a second object was added after the first one had been updated
C1_Witness ==
  /\ op.name = "add_object"
  /\ op.ret = 1
  /\ Len(objects) = 2
  /\ ~objects[1].visible

\* C8: add_pipeline returns the number of pipelines before the call and
\* add_object the number of objects before the call; each call adds exactly one
\* entry and no call but destroy shrinks a table, so handles are never reused
\* between two destroy calls.
C8_SequentialHandles ==
  [][ /\ op'.name = "add_pipeline"
         => op'.ret = Len(pipelines) /\ Len(pipelines') = Len(pipelines) + 1
      /\ op'.name = "add_object"
         => op'.ret = Len(objects) /\ Len(objects') = Len(objects) + 1
      /\ op'.name # "destroy"
         => Len(pipelines') >= Len(pipelines) /\ Len(objects') >= Len(objects)
    ]_vars

\* the second object went to the second pipeline, which had no object yet
C8_Witness ==
  /\ op.name = "add_object"
  /\ op.ret = 1
  /\ op.pipe = 1
  /\ Len(pipelines[2].obj_indices) = 1

\* C9: destroy(full) empties the three tables, calls destroy() on every texture
\* of the texture table and on every vertex, index and uniform buffer of the
\* object table, and tears down the screen buffers and the device iff full.
C9_DestroyReleasesAll ==
  [][ op'.name = "destroy"
      => /\ pipelines' = <<>> /\ textures' = <<>> /\ objects' = <<>>
         /\ \A i \in 1..Len(textures) : textures[i].id \in op'.released
         /\ \A i \in 1..Len(objects) :
              /\ objects[i].v_buffer \in op'.released
              /\ objects[i].index_buffer # <<>>
                 => objects[i].index_buffer \in op'.released
              /\ \A k \in 1..Len(objects[i].buffers0) :
                   objects[i].buffers0[k].id \in op'.released
         /\ deviceAlive' = ~op'.full
         /\ screenAlive' = ~op'.full
         /\ (<<"device">> \in op'.released) = op'.full
         /\ (<<"screen_msaa">> \in op'.released) = op'.full
         /\ (<<"screen_zbuffer">> \in op'.released) = op'.full ]_vars

\* destroy(false) released a texture, an index buffer and uniform buffers
C9_Witness ==
  /\ op.name = "destroy"
  /\ ~op.full
  /\ deviceAlive
  /\ <<"texture", 0, 0>> \in op.released
  /\ <<"index_buffer", 0, 0>> \in op.released
  /\ <<"gen", 1, 0>> \in op.released

\* C10: add_texture with a source that cannot be opened or decoded appends the
\* three textures of the requested size, without image data, returns the handle
\* of the first of them, and leaves the table as a call without source does.
C10_BadSourceAsNoSource ==
  [][ (op'.name = "add_texture" /\ op'.src \in BadSources)
      => /\ Len(textures') = Len(textures) + 3
         /\ op'.ret = Len(textures)
         /\ SubSeq(textures', 1, Len(textures)) = textures
         /\ \A k \in 1..3 :
              /\ textures'[Len(textures) + k].w = op'.dims[1]
              /\ textures'[Len(textures) + k].h = op'.dims[2]
              /\ ~textures'[Len(textures) + k].data
         /\ textures' = textures \o
              AddTextureEntries(Len(textures), op'.dims, "none", op'.fmt) ]_vars

C10_Witness ==
  /\ op.name = "add_texture"
  /\ op.src = "undecodable"
  /\ Len(textures) = 3
  /\ textures[3].w = 1

\* C2: the commands of one render pass are, for the pipelines in the order of
\* the list passed in and for each of them its objects in the order they were
\* added, one group per visible object (set_pipeline, set_vertex_buffer,
\* set_bind_group, then the draw); a hidden object contributes no command.
VisibleObjects(p_id) ==
  SelectSeq(pipelines[p_id + 1].obj_indices, LAMBDA o : objects[o + 1].visible)

\* the <<pipeline, object>> pairs to draw, in order
RECURSIVE DrawOrder(_)
DrawOrder(ids) ==
  IF ids = <<>> THEN <<>>
  ELSE [j \in 1..Len(VisibleObjects(Head(ids))) |->
          <<Head(ids), VisibleObjects(Head(ids))[j]>>] \o DrawOrder(Tail(ids))

IsDraw(c) == c.cmd \in {"draw", "draw_indexed"}

C2_DrawOrder ==
  op.name = "render_on_texture" =>
    LET order == DrawOrder(op.ids)
        draws == SelectSeq(pass, IsDraw)
        binds == SelectSeq(pass, LAMBDA c : c.cmd = "set_pipeline")
        vbufs == SelectSeq(pass, LAMBDA c : c.cmd = "set_vertex_buffer")
        groups == SelectSeq(pass, LAMBDA c : c.cmd = "set_bind_group")
    IN /\ Len(draws) = Len(order)
       /\ Len(binds) = Len(order)
       /\ Len(vbufs) = Len(order)
       /\ Len(groups) = Len(order)
       /\ \A k \in 1..Len(order) :
            /\ draws[k].arg = <<"object", order[k][2]>>
            /\ binds[k].arg = pipelines[order[k][1] + 1].pipe
            /\ vbufs[k].arg = objects[order[k][2] + 1].v_buffer
            /\ groups[k].arg = objects[order[k][2] + 1].bind_group0.id
       /\ \A k \in 1..Len(pass) : \A i \in 1..Len(objects) :
            ~objects[i].visible =>
              pass[k].arg \notin {objects[i].v_buffer, objects[i].index_buffer,
                                  objects[i].bind_group0.id, <<"object", i - 1>>}

\* a pass over <<1, 0>> that drew an object of pipeline 1 and skipped a hidden
\* object of pipeline 0
C2_Witness ==
  /\ op.name = "render_on_texture"
  /\ op.ids = <<1, 0>>
  /\ Len(objects) = 2
  /\ objects[1].pipe_id = 0 /\ ~objects[1].visible
  /\ objects[2].pipe_id = 1 /\ objects[2].visible
  /\ Len(pass) >= 4

\* C3: resize_texture with a texture handle add_texture returned and an object
\* handle add_object returned never panics, and neither does the
\* render_on_texture that follows it.
C3_ResizeNeverPanics ==
  op.name \in {"resize_texture", "render_on_texture"} => panicked = ""

\* C4 as claimed: resize_texture gives the three entries of the handle the new
\* size and changes nothing else: not the length of the texture table, no other
\* texture, and no bind group or uniform buffer of any object.
ResizedTextures(old, new, name, dims) ==
  /\ Len(new) = Len(old)
  /\ \A i \in 1..Len(old) :
       IF i \in {name + 1, name + 2, name + 3}
       THEN new[i].w = dims[1] /\ new[i].h = dims[2]
       ELSE new[i] = old[i]

C5_GenBufferHoldsPayload ==
  op.name = "update_object" =>
    objects[op.obj + 1].buffers0[2].data = op.upd.gen_buf

\* C6: update_object packs the first min(max_joints, number of transforms)
\* matrices, in order, and never panics or reports an error.
RECURSIVE Flatten(_)
Flatten(ms) == IF ms = <<>> THEN <<>> ELSE Head(ms) \o Flatten(Tail(ms))

C6_PacksMinJoints ==
  op.name = "update_object" =>
    LET cap == objects[op.obj + 1].max_joints
        ts == op.upd.anim_transforms
    IN /\ op.packed = Flatten(SubSeq(ts, 1, Min(cap, Len(ts))))
       /\ panicked = ""

\* C7: every pipeline of the shared-buffer manager holds at most max_obj_count
\* objects and every object's slot (MinStride x pipe_index) lies inside the
\* pipeline's MVP and general buffers.
C7_ObjectCountWithinCapacity ==
  \A p \in 1..Len(rpipelines) :
    /\ Len(rpipelines[p].objects) <= rpipelines[p].max_obj_count
    /\ \A i \in 1..Len(rpipelines[p].objects) : \A e \in 1..2 :
         MinStride * rpipelines[p].objects[i].pipe_index + MinStride
           <= rpipelines[p].bind_group0.entries[e].size
\* C11: when render_to_screen reports Lost or Outdated, the handler calls
\* resize_screen with the current window size right after it, which
\* reconfigures the surface for every non-empty size, and render_to_screen is
\* called at most once per RedrawRequested, so never again in that frame.
RenderCalls == SelectSeq(calls, LAMBDA c : c.call = "render_to_screen")

C11_ReconfigureNoRerender ==
  /\ Len(RenderCalls) <= 1
  /\ \A i \in 1..Len(calls) :
       (calls[i].call = "render_to_screen" /\ calls[i].result \in {"Lost", "Outdated"})
       => /\ i + 1 = Len(calls)
          /\ calls[i + 1] = Call("resize_screen", winit.window_size, "")
          /\ (winit.window_size[1] > 0 /\ winit.window_size[2] > 0)
             => winit.renderer.config = winit.window_size
          /\ ~winit.exited

\* a redraw after a resize to 801x601 whose render reported Outdated
C11_Witness ==
  /\ Len(calls) = 5
  /\ calls[4] = Call("render_to_screen", <<801, 601>>, "Outdated")
  /\ calls[5] = Call("resize_screen", <<801, 601>>, "")

\* C12: for an orthographic camera the projection of create_mvp is
\* ortho(-w/2, w/2, top = h/2, bottom = -h/2, near, far), in every variant.
ProjOf(mvp) == SubSeq(mvp, 33, 48)

C12_OrthoTopPositive ==
  (calc.fn = "create_mvp" /\ calc.done
   /\ CameraOf(calc.in.variant, calc.in.update).cam_type = ORTHOGRAPHIC)
  => LET cam == CameraOf(calc.in.variant, calc.in.update)
         half == HalfSize(calc.in.variant, cam, calc.in.config)
     IN ProjOf(calc.out) = Mat4Ortho(QNeg(half[1]), half[1], half[2],
                                     QNeg(half[2]), F(cam.near), F(cam.far))
\* C13: create_mvp for an update without camera gives the 48 floats it gives
\* for the same update with the default camera passed explicitly, that camera
\* being orthographic at (0,0,100), looking at the origin, near 0, far 1000.
ExplicitDefaultCamera(variant) ==
  [cam_type |-> 1, position |-> <<0, 0, 100>>, look_at |-> <<0, 0, 0>>,
   up |-> <<0, 1, 0>>, fov_y |-> 0, near |-> 0, far |-> 1000,
   target_size |-> IF variant = "shared" THEN <<100, 100>> ELSE <<>>]

C13_NoCameraIsDefaultCamera ==
  (calc.fn = "create_mvp" /\ calc.done /\ calc.in.update.camera = <<>>)
  => calc.out = create_mvp(calc.in.variant,
                           with_camera(calc.in.update,
                                       ExplicitDefaultCamera(calc.in.variant)),
                           calc.in.config)

\* an update without camera, moved, scaled and rotated, on an odd surface size
C13_Witness ==
  /\ calc.fn = "create_mvp" /\ calc.done
  /\ calc.in.variant = "renderer"
  /\ calc.in.update.camera = <<>>
  /\ calc.in.update.translate = <<10, 20, 0>>
  /\ calc.in.update.rotate.deg = 90
  /\ calc.in.config = <<801, 601>>
  /\ calc.out[27] = F(1)

\* C14: elements 12, 13, 14 of the model matrix create_mvp writes are the
\* update's position, whatever its scale and rotation.
C14_TranslationColumn ==
  (calc.fn = "create_mvp" /\ calc.done)
  => /\ calc.out[13] = F(calc.in.update.translate[1])
     /\ calc.out[14] = F(calc.in.update.translate[2])
     /\ calc.out[15] = F(calc.in.update.translate[3])

\* position (10,20,0) with scale (2,3,1) and a quarter turn about z
C14_Witness ==
  /\ calc.fn = "create_mvp" /\ calc.done
  /\ calc.in.update.translate = <<10, 20, 0>>
  /\ calc.in.update.scale = <<2, 3, 1>>
  /\ calc.in.update.rotate.kind = "AxisAngle"
  /\ calc.in.update.rotate.deg = 90
  /\ calc.out[2] = F(3)
  /\ calc.out[13] = F(10)
\* C15: the default value of the update builder has zero translation, zero
\* rotation, unit scale, no camera, and (1,1,1,1) in the colour slots 0..3 of
\* its float payload.
C15_DefaultIsIdentityWhite ==
  (calc.fn = "builder" /\ calc.done /\ calc.in = <<>>)
  => /\ calc.out.translate = <<0, 0, 0>>
     /\ calc.out.rotate.kind = "AxisAngle" /\ calc.out.rotate.deg = 0
     /\ calc.out.scale = <<1, 1, 1>>
     /\ calc.out.camera = <<>>
     /\ SubSeq(calc.out.gen_buf, 1, 4) = <<1, 1, 1, 1>>

\* C16: calculate_sdf returns the minimum of max_dist and the signed distances
\* of all objects: the result never exceeds max_dist, is max_dist for an empty
\* list, equals max_dist or the distance of one of the objects, is at most
\* each of them, and is the same for every order of the list.
Reorderings(objs) ==
  { [i \in 1..Len(objs) |-> objs[f[i]]] :
      f \in { g \in [1..Len(objs) -> 1..Len(objs)] :
                \A i, j \in 1..Len(objs) : g[i] = g[j] => i = j } }

C16_SdfIsMinimum ==
  (calc.fn = "calculate_sdf" /\ calc.done) =>
    LET in == calc.in
        dists == { ObjectDist(in.variant, in.p, in.max_dist, in.objs[i]) :
                     i \in 1..Len(in.objs) }
    IN /\ QLe(calc.out, in.max_dist)
       /\ in.objs = <<>> => calc.out = in.max_dist
       /\ calc.out \in dists \cup {in.max_dist}
       /\ \A d \in dists : QLe(calc.out, d)
       /\ \A r \in Reorderings(in.objs) :
            calculate_sdf(in.variant, in.p, in.max_dist, r) = calc.out

\* two different objects, the nearer one first, with a result below max_dist
C16_Witness ==
  /\ calc.fn = "calculate_sdf" /\ calc.done
  /\ Len(calc.in.objs) = 2
  /\ QLt(ObjectDist(calc.in.variant, calc.in.p, calc.in.max_dist, calc.in.objs[1]),
         ObjectDist(calc.in.variant, calc.in.p, calc.in.max_dist, calc.in.objs[2]))
  /\ QLt(calc.out, calc.in.max_dist)
  /\ QLt(ObjectDist(calc.in.variant, calc.in.p, calc.in.max_dist, calc.in.objs[2]),
         calc.in.max_dist)

\* the point relative to the centre, and the tests' numeric cases: the
\* expected value at a point of a rectangle of the given size centred at the
\* origin
RelPoint == Vec2Sub(calc.in.point, calc.in.center)

RectCase(size, point, expected) ==
  (calc.in.center = V2(0, 0) /\ calc.in.size = size /\ calc.in.point = point)
    => calc.out = expected

\* C19 as stated: in the two sdf.rs files rect_size holds half-extents; a
\* rectangle of size (2, 2) gives 3 at (5, 0), -1 at (1, 0) and 0 at (2, 2),
\* and every point on an axis through the centre, at distance a from it,
\* gets a minus the half-extent on that axis.
C19_OnAxisMinusHalfExtent ==
  (calc.fn = "signed_dist_to_rect" /\ calc.done
     /\ calc.in.module \in {"utils/sdf", "math/sdf"}) =>
    /\ RectCase(V2(2, 2), V2(5, 0), F(3))
    /\ RectCase(V2(2, 2), V2(1, 0), F(-1))
    /\ RectCase(V2(2, 2), V2(2, 2), F(0))
    /\ RelPoint[2] = F(0) => calc.out = QSub(QAbs(RelPoint[1]), calc.in.size[1])
    /\ RelPoint[1] = F(0) => calc.out = QSub(QAbs(RelPoint[2]), calc.in.size[2])

\* C19 amended: the numeric cases hold; an on-axis point at distance a gets
\* max(a - half-extent on that axis, -half-extent on the other axis), which is
\* a minus the half-extent on that axis on and outside the edge and wherever
\* the point is nearer to that edge than to the other pair; the value is
\* negative inside, zero on the edge and positive outside.
C19_OnAxisNearestEdge ==
  (calc.fn = "signed_dist_to_rect" /\ calc.done
     /\ calc.in.module \in {"utils/sdf", "math/sdf"}) =>
    LET ax == QAbs(RelPoint[1])
        ay == QAbs(RelPoint[2])
        hx == calc.in.size[1]
        hy == calc.in.size[2]
    IN /\ RectCase(V2(2, 2), V2(5, 0), F(3))
       /\ RectCase(V2(2, 2), V2(1, 0), F(-1))
       /\ RectCase(V2(2, 2), V2(2, 2), F(0))
       /\ ay = F(0) => calc.out = QMax(QSub(ax, hx), QNeg(hy))
       /\ ax = F(0) => calc.out = QMax(QSub(ay, hy), QNeg(hx))
       /\ (ay = F(0) /\ QGe(ax, hx)) => calc.out = QSub(ax, hx)
       /\ (ax = F(0) /\ QGe(ay, hy)) => calc.out = QSub(ay, hy)
       /\ (QLt(ax, hx) /\ QLt(ay, hy)) => QLt(calc.out, F(0))
       /\ ((ax = hx /\ QLe(ay, hy)) \/ (ay = hy /\ QLe(ax, hx))) => calc.out = F(0)
       /\ (QGt(ax, hx) \/ QGt(ay, hy)) => QGt(calc.out, F(0))

\* an on-axis point inside a rectangle that is not square, nearer to the other
\* pair of edges
C19_Witness ==
  /\ calc.fn = "signed_dist_to_rect" /\ calc.done
  /\ calc.in.module = "utils/sdf"
  /\ calc.in.size = V2(4, 1) /\ RelPoint = V2(1, 0)
  /\ calc.out = F(-1)

\* C20: the function the test signed_dist_rect calls, in each module that has
\* the test, takes full side lengths: size (4, 4) gives 3 at (5, 0) and at
\* (0, 5), -1 at (1, 0) and 0 at (2, 2); an on-axis point at distance a
\* outside or on the rectangle gets a minus half the size on that axis.
C20_TestedRectTakesFullSize ==
  (calc.fn = "signed_dist_to_rect" /\ calc.done
     /\ calc.in.module \in {"utils/physics", "math/physics"}) =>
    LET ax == QAbs(RelPoint[1])
        ay == QAbs(RelPoint[2])
        hx == QMul(calc.in.size[1], Q(1, 2))
        hy == QMul(calc.in.size[2], Q(1, 2))
    IN /\ RectCase(V2(4, 4), V2(5, 0), F(3))
       /\ RectCase(V2(4, 4), V2(0, 5), F(3))
       /\ RectCase(V2(4, 4), V2(1, 0), F(-1))
       /\ RectCase(V2(4, 4), V2(2, 2), F(0))
       /\ (ay = F(0) /\ QGe(ax, hx)) => calc.out = QSub(ax, hx)
       /\ (ax = F(0) /\ QGe(ay, hy)) => calc.out = QSub(ay, hy)

\* C17: ray_march_dist never returns more than max_dist, in utils/sdf.rs and
\* in math/sdf.rs.
C17_ReturnWithinMaxDist ==
  (calc.fn = "ray_march_dist" /\ calc.done) =>
    QLe(calc.out.ret, calc.in.max_dist)

\* C18: ray_march_dist terminates on every input: whenever an iteration is
\* followed by another one it has increased the accumulated distance by more
\* than 0.999, and no loop state is its own successor.
RaySpins ==
  /\ calc.fn = "ray_march_dist" /\ calc.out.pc = "loop"
  /\ LoopCond(calc.in, calc.out)
  /\ LoopBody(calc.in, calc.out) = calc.out

IterationFollowed ==
  /\ calc.fn = "ray_march_dist"
  /\ calc.out.pc = "loop" /\ calc'.out.pc = "loop"
  /\ LoopCond(calc'.in, calc'.out)

C18_EachIterationAdvances ==
  /\ []~RaySpins
  /\ [][IterationFollowed =>
          QGt(QSub(calc'.out.ray_dist, calc.out.ray_dist), HitEps)]_vars

\* C21: with a corner radius r > 0 and a line thickness t > 0 the distance of
\* an object is |d - r| - t, d being the distance of its base shape; a radius
\* or a thickness that is not above 0 leaves its step out. Stated for every
\* object of the list, and for the result when the list holds one object.
Modified(d, obj) ==
  LET r == obj.corner_radius
      t == obj.line_thickness
  IN IF QGt(r, F(0)) /\ QGt(t, F(0)) THEN QSub(QAbs(QSub(d, r)), t)
     ELSE IF QGt(r, F(0)) THEN QSub(d, r)
     ELSE IF QGt(t, F(0)) THEN QSub(QAbs(d), t)
     ELSE d

C21_RoundingThenBorder ==
  (calc.fn = "calculate_sdf" /\ calc.done) =>
    LET in == calc.in
        Base(o) == ShapeDist(in.variant, in.p, in.max_dist, o)
    IN /\ \A i \in 1..Len(in.objs) :
            ObjectDist(in.variant, in.p, in.max_dist, in.objs[i])
              = Modified(Base(in.objs[i]), in.objs[i])
       /\ Len(in.objs) = 1 =>
            calc.out = QMin(in.max_dist, Modified(Base(in.objs[1]), in.objs[1]))

\* a point inside the rounded shape, where the other order gives another value
C21_Witness ==
  /\ calc.fn = "calculate_sdf" /\ calc.done
  /\ Len(calc.in.objs) = 1
  /\ QGt(calc.in.objs[1].corner_radius, F(0))
  /\ QGt(calc.in.objs[1].line_thickness, F(0))
  /\ QLt(ShapeDist(calc.in.variant, calc.in.p, calc.in.max_dist, calc.in.objs[1]),
         calc.in.objs[1].corner_radius)
  /\ calc.out = F(2)

\* ------------------------------------------------------------------ C22
\* the determinant of a matrix of whole numbers, in exact arithmetic
ExactDet3(s) ==
  s[1] * (s[5] * s[9] - s[6] * s[8]) - s[2] * (s[4] * s[9] - s[6] * s[7])
    + s[3] * (s[4] * s[8] - s[5] * s[7])

ExactDet(m) ==
  LET n == [k \in 1..16 |-> m[k][1]]
      Co(col) == ExactDet3(submatrix(n, 0, col))
                   * (IF col % 2 = 0 THEN 1 ELSE -1)
  IN n[1] * Co(0) + n[2] * Co(1) + n[3] * Co(2) + n[4] * Co(3)

Inverted == calc.fn = "inverse" /\ calc.done

\* C22: Mat4::inverse returns the identity for every matrix whose
\* determinant is zero
C22_SingularGivesIdentity ==
  (Inverted /\ ExactDet(calc.in) = 0) => calc.out = Mat4Identity

\* ------------------------------------------------------------------ C23
RotateDone == calc.fn = "rotate" /\ calc.done

\* C23: Mat4::rotate with an axis of length zero returns the identity
\* matrix for every angle, with no value that is not finite
C23_ZeroAxisGivesIdentity ==
  (RotateDone /\ calc.in.axis = V3(0, 0, 0)) => calc.out = Mat4Identity

\* ------------------------------------------------------------------ C24
Tolerance == <<1, 1000>>

\* two matrices agree entry by entry within the tolerance
Approx(a, b) ==
  \A k \in 1..16 : QLe(QAbs(QSub(a[k], b[k])), Tolerance)

RoundTrip(m, inv) ==
  /\ Approx(Mat4Multiply(m, inv), Mat4Identity)
  /\ Approx(Mat4Inverse(inv), m)

\* whole numbers so small that no product of the cofactor expansion is
\* rounded
SmallEntries(m) ==
  \A k \in 1..16 : m[k][2] = 1 /\ Abs(m[k][1]) <= 16

EulerDone == calc.fn = "rotate_euler" /\ calc.done

\* C25: rotate about (0,0,1) by t equals rotate_euler(0,0,t), rotate about
\* (0,1,0) equals rotate_euler(0,t,0) and rotate about (1,0,0) equals
\* rotate_euler(t,0,0), for every angle t
C25_PrincipalAxesAgree ==
  /\ RotateDone =>
       LET in == calc.in
       IN /\ in.axis = V3(0, 0, 1) => calc.out = Mat4RotateEuler(0, 0, in.deg)
          /\ in.axis = V3(0, 1, 0) => calc.out = Mat4RotateEuler(0, in.deg, 0)
          /\ in.axis = V3(1, 0, 0) => calc.out = Mat4RotateEuler(in.deg, 0, 0)
  /\ EulerDone =>
       LET in == calc.in
       IN /\ (in.roll = 0 /\ in.pitch = 0)
               => calc.out = rotate(in.module, V3(0, 0, 1), in.yaw)
          /\ (in.roll = 0 /\ in.yaw = 0)
               => calc.out = rotate(in.module, V3(0, 1, 0), in.pitch)
          /\ (in.pitch = 0 /\ in.yaw = 0)
               => calc.out = rotate(in.module, V3(1, 0, 0), in.roll)

\* the rotation of the test mat4_rotate2 : 45 degrees about the y axis
C25_Witness ==
  /\ RotateDone /\ calc.in.axis = V3(0, 1, 0) /\ calc.in.deg = 45
  /\ calc.out[1] = <<141, 200>> /\ calc.out[3] = <<-141, 200>>
  /\ calc.out[9] = <<141, 200>> /\ calc.out[6] = <<1, 1>>

\* ------------------------------------------------------------------ C26
\* the floats of slot k (offset MinStride * k) of a shared buffer
SlotOf(buf, k) ==
  SubSeq(buf.data, (MinStride * k) \div F32Bytes + 1,
         (MinStride * (k + 1)) \div F32Bytes)

\* every slot of the MVP and general buffers of pipeline q (counted from 1)
\* but slot own keeps its content; own = -1 excepts no slot
OtherSlotsKept(q, own) ==
  \A k \in 0..(rpipelines[q].max_obj_count - 1) : \A e \in 1..2 :
    k # own =>
      SlotOf(rpipelines'[q].bind_group0.entries[e], k)
        = SlotOf(rpipelines[q].bind_group0.entries[e], k)

\* C26: in renderer/root.rs, update_object for one object changes only that
\* object's visibility flag and its own slot of its pipeline's MVP and
\* general buffers; every other object's slot, in the same pipeline or in
\* another one, is unchanged by the call
C26_UpdateTouchesOwnSlotOnly ==
  [][(op'.name = "update_object" /\ panicked' = "") =>
       \A q \in 1..Len(rpipelines) :
         /\ Len(rpipelines'[q].objects) = Len(rpipelines[q].objects)
         /\ \A j \in 1..Len(rpipelines[q].objects) :
              (q - 1 # op'.pipe \/ j - 1 # op'.obj) =>
                rpipelines'[q].objects[j] = rpipelines[q].objects[j]
         /\ OtherSlotsKept(q,
              IF q - 1 = op'.pipe
              THEN rpipelines[q].objects[op'.obj + 1].pipe_index ELSE -1)
    ]_vars

\* ------------------------------------------------------------------ C27
\* C27: every non-repeat key press is seen by an update call as Pressed and
\* every release as Released, whatever number of key events arrive between
\* two redraws: a Pressed or Released state waiting in the input cache
\* leaves it only in a redraw that handed it to app.update
C27_PressAndReleaseEachSeen ==
  [][winit.renderer.some =>
       \A k \in Keys : \A st \in {"Pressed", "Released"} :
         (winit.input_cache[k] = st /\ winit'.input_cache[k] # st) =>
           \E i \in 1..Len(calls') : calls'[i].call = "app.update"
    ]_vars

\* ------------------------------------------------------------------ C28
\* the positions of app.update and render_to_screen among the calls of the
\* step
FrameCalls ==
  { i \in 1..Len(calls') :
      calls'[i].call \in {"app.update", "render_to_screen"} }

\* C28: after a Resized event, update and render_to_screen are not called
\* again until resize_screen and app.resize were called with the most recent
\* window size; the first redraw after the event is skipped entirely and the
\* resize is applied at the start of the next redraw, before update
C28_ResizeBeforeNextFrame ==
  [][winit.renderer.some =>
       /\ winit'.window_size # winit.window_size => winit'.resize_state = 1
       /\ winit.resize_state = 1 => FrameCalls = {}
       /\ (winit.resize_state = 1 /\ winit'.resize_state # 1) =>
            /\ calls' = <<>>
            /\ winit' = [winit EXCEPT !.resize_state = 2]
       /\ (winit.resize_state # 0 /\ FrameCalls # {}) =>
            /\ winit.resize_state = 2 /\ winit'.resize_state = 0
            /\ calls'[1] = Call("resize_screen", winit.window_size, "")
            /\ calls'[2] = Call("app.resize", winit.window_size, "")
            /\ \A i \in FrameCalls : i > 2
       /\ (winit.resize_state = 0 /\ FrameCalls # {}) =>
            \A i \in 1..Len(calls') : i < 2 => calls'[i].call = "app.update"
    ]_vars

\* the second redraw after a resize to 801x601 : the resize, then the frame
C28_Witness ==
  /\ winit.resize_state = 0 /\ winit.window_size = <<801, 601>>
  /\ calls = << Call("resize_screen", <<801, 601>>, ""),
                Call("app.resize", <<801, 601>>, ""),
                Call("app.update", <<801, 601>>, ""),
                Call("render_to_screen", <<801, 601>>, "Ok") >>

\* ------------------------------------------------------------------ C29
\* C29: for an orthographic camera without target size, the half-width and
\* half-height of create_mvp are exactly half of the configured width and
\* height for every size above 0, odd sizes and 1 included, so that the
\* projection is never degenerate
C29_HalfOfConfiguredSize ==
  (calc.fn = "create_mvp" /\ calc.done
   /\ CameraOf(calc.in.variant, calc.in.update).cam_type = ORTHOGRAPHIC
   /\ CameraOf(calc.in.variant, calc.in.update).target_size = <<>>)
  => LET cam == CameraOf(calc.in.variant, calc.in.update)
         half == HalfSize(calc.in.variant, cam, calc.in.config)
     IN /\ QAdd(half[1], half[1]) = F(calc.in.config[1])
        /\ QAdd(half[2], half[2]) = F(calc.in.config[2])
        /\ \A k \in 1..16 : QFinite(ProjOf(calc.out)[k])

\* ------------------------------------------------------------------ C30
\* C30: the pixel callback of create_texture writes only inside the pixel
\* buffer for every reported (x, y), coordinates outside the texture
\* included, and never panics on an index out of range
C30_CallbackStaysInBuffer ==
  calc.fn = "create_texture" => panicked = ""

====
